---- MODULE Spec2Model ----
(***************************************************************************)
(* The parity calculators of app_paridade_produtos.py.                     *)
(*                                                                         *)
(* Each calculator is the list of the statements of its Python function,   *)
(* run by an evaluator of the few Python constructs they use: local        *)
(* variables, arithmetic, comparisons, dict.get, conditional expressions,  *)
(* dict literals, item assignment, list.append, if, return and try/except. *)
(*                                                                         *)
(* Python floats are modelled as exact rationals (sign, numerator,         *)
(* denominator), the numerator and the denominator being natural numbers   *)
(* of arbitrary size written as little-endian sequences of limbs in base   *)
(* Base, so that no product overflows.  Rounding of IEEE doubles is not    *)
(* modelled: every equality below is an equality of exact arithmetic.      *)
(*                                                                         *)
(* A Python value is a record with a field t:                              *)
(*   "num"   a number [t, neg, num, den]                                   *)
(*   "none"  None                                                          *)
(*   "str"   a string                                                      *)
(*   "bool", "dict", "list"                                                *)
(*   "exc"   not a value: the evaluation raised an exception               *)
(* Arithmetic and comparisons on anything but numbers raise (TypeError),   *)
(* division by zero raises (ZeroDivisionError).                            *)
(***************************************************************************)
EXTENDS Integers, Sequences, FiniteSets, TLC

(***************************************************************************)
(* Natural numbers of arbitrary size                                       *)
(***************************************************************************)
Base == 10 * 10 * 10

Limb(a, i) == IF i >= 1 /\ i <= Len(a) THEN a[i] ELSE 0

RECURSIVE Trim(_)
Trim(a) == IF Len(a) > 0 /\ a[Len(a)] = 0 THEN Trim(SubSeq(a, 1, Len(a) - 1)) ELSE a

RECURSIVE NFromInt(_)
NFromInt(k) == IF k = 0 THEN << >> ELSE <<k % Base>> \o NFromInt(k \div Base)

RECURSIVE NAddLoop(_, _, _, _, _)
NAddLoop(a, b, i, c, acc) ==
    IF i > Len(a) /\ i > Len(b)
    THEN IF c = 0 THEN acc ELSE Append(acc, c)
    ELSE LET s == Limb(a, i) + Limb(b, i) + c
         IN  NAddLoop(a, b, i + 1, s \div Base, Append(acc, s % Base))

NAdd(a, b) == NAddLoop(a, b, 1, 0, << >>)

\* a - b for a >= b
RECURSIVE NSubLoop(_, _, _, _, _)
NSubLoop(a, b, i, br, acc) ==
    IF i > Len(a)
    THEN acc
    ELSE LET s == Limb(a, i) - Limb(b, i) - br
         IN  IF s < 0
             THEN NSubLoop(a, b, i + 1, 1, Append(acc, s + Base))
             ELSE NSubLoop(a, b, i + 1, 0, Append(acc, s))

NSub(a, b) == Trim(NSubLoop(a, b, 1, 0, << >>))

\* -1, 0, 1 as a < b, a = b, a > b
RECURSIVE NCmpFrom(_, _, _)
NCmpFrom(a, b, i) ==
    IF i = 0 THEN 0
    ELSE IF a[i] < b[i] THEN -1
    ELSE IF a[i] > b[i] THEN 1
    ELSE NCmpFrom(a, b, i - 1)

NCmp(a, b) ==
    IF Len(a) < Len(b) THEN -1
    ELSE IF Len(a) > Len(b) THEN 1
    ELSE NCmpFrom(a, b, Len(a))

\* column k (from 0) of the schoolbook product
RECURSIVE NCol(_, _, _, _)
NCol(a, b, k, i) ==
    IF i > Len(a) \/ i > k + 1 THEN 0
    ELSE a[i] * Limb(b, k + 2 - i) + NCol(a, b, k, i + 1)

RECURSIVE NMulLoop(_, _, _, _, _)
NMulLoop(a, b, k, c, acc) ==
    IF k > Len(a) + Len(b) - 1
    THEN IF c = 0 THEN acc ELSE NMulLoop(a, b, k + 1, c \div Base, Append(acc, c % Base))
    ELSE LET s == NCol(a, b, k, 1) + c
         IN  NMulLoop(a, b, k + 1, s \div Base, Append(acc, s % Base))

NMul(a, b) ==
    IF Len(a) = 0 \/ Len(b) = 0 THEN << >>
    ELSE IF a = <<1>> THEN b
    ELSE IF b = <<1>> THEN a
    ELSE Trim(NMulLoop(a, b, 0, 0, << >>))

RECURSIVE NPow10(_)
NPow10(k) == IF k = 0 THEN <<1>> ELSE NMul(<<10>>, NPow10(k - 1))

(***************************************************************************)
(* Rationals                                                               *)
(***************************************************************************)
\* common factors Base are removed (both numbers end in a zero limb)
RECURSIVE Strip(_, _)
Strip(n, d) ==
    IF Len(n) > 1 /\ Len(d) > 1 /\ n[1] = 0 /\ d[1] = 0
    THEN Strip(Tail(n), Tail(d))
    ELSE <<n, d>>

RatOf(neg, s) == [t |-> "num", neg |-> neg, num |-> s[1], den |-> s[2]]

Rat(neg, n, d) ==
    IF Len(n) = 0
    THEN RatOf(FALSE, << << >>, <<1>> >>)
    ELSE RatOf(neg, Strip(n, d))

\* the decimal literal m / 10^scale, m an integer
Dec(m, scale) == Rat(m < 0, NFromInt(IF m < 0 THEN -m ELSE m), NPow10(scale))

Num(m) == Dec(m, 0)

RNeg(x) == Rat(~x.neg, x.num, x.den)

\* the sum of two numbers of numerators xn, yn over the common denominator d
RAddOver(xneg, yneg, xn, yn, d) ==
    IF xneg = yneg
    THEN Rat(xneg, NAdd(xn, yn), d)
    ELSE IF NCmp(xn, yn) >= 0
         THEN Rat(xneg, NSub(xn, yn), d)
         ELSE Rat(yneg, NSub(yn, xn), d)

RAdd(x, y) ==
    IF x.den = y.den
    THEN RAddOver(x.neg, y.neg, x.num, y.num, x.den)
    ELSE RAddOver(x.neg, y.neg, NMul(x.num, y.den), NMul(y.num, x.den),
                  NMul(x.den, y.den))

RSub(x, y) == RAdd(x, RNeg(y))

RMul(x, y) == Rat(x.neg # y.neg, NMul(x.num, y.num), NMul(x.den, y.den))

\* y # 0
RDiv(x, y) == Rat(x.neg # y.neg, NMul(x.num, y.den), NMul(x.den, y.num))

RIsZero(x) == Len(x.num) = 0

\* -1, 0, 1 as x < y, x = y, x > y
RSign(z) == IF RIsZero(z) THEN 0 ELSE IF z.neg THEN -1 ELSE 1

RCmp(x, y) == RSign(RSub(x, y))

REq(x, y) == RCmp(x, y) = 0
RLe(x, y) == RCmp(x, y) <= 0
RLt(x, y) == RCmp(x, y) < 0
RAbs(x) == Rat(FALSE, x.num, x.den)

(***************************************************************************)
(* Python values                                                           *)
(***************************************************************************)
PyVal(t) == [t |-> t, neg |-> FALSE, num |-> << >>, den |-> <<1>>]

None == PyVal("none")
\* a non-numeric object given as a parameter
Text == PyVal("str")
\* not a value: the evaluation raised an exception
Exc  == PyVal("exc")

PyStr(s) == [t |-> "str", s |-> s]
PyBool(b) == [t |-> "bool", b |-> b]
PyDict(items) == [t |-> "dict", items |-> items]
PyList(items) == [t |-> "list", items |-> items]

IsNum(v) == v.t = "num"
IsExc(v) == v.t = "exc"

Zero == Num(0)
One == Num(1)
Hundred == Num(100)

\* a + b, a - b, a * b, a / b: TypeError unless both are numbers,
\* ZeroDivisionError when b is zero
PyAdd(a, b) == IF IsNum(a) /\ IsNum(b) THEN RAdd(a, b) ELSE Exc
PySub(a, b) == IF IsNum(a) /\ IsNum(b) THEN RSub(a, b) ELSE Exc
PyMul(a, b) == IF IsNum(a) /\ IsNum(b) THEN RMul(a, b) ELSE Exc
PyDiv(a, b) == IF IsNum(a) /\ IsNum(b) /\ ~RIsZero(b) THEN RDiv(a, b) ELSE Exc

\* a > b, a <= b: TypeError unless both are numbers
PyGt(a, b) == IF IsNum(a) /\ IsNum(b) THEN PyBool(RLt(b, a)) ELSE Exc
PyLe(a, b) == IF IsNum(a) /\ IsNum(b) THEN PyBool(RLe(a, b)) ELSE Exc

\* a mapping is a function whose domain is the set of keys present
EmptyDict == << >>

\* faulty variant of d.get(key, default): d[key], which raises KeyError when
\* the key is missing
DictGetItem(d, key, default) == IF key \in DOMAIN d THEN d[key] ELSE Exc

\* d.get(key, default)
DictGet(d, key, default) == IF key \in DOMAIN d THEN d[key] ELSE default

\* d[key] = v
Put(d, key, v) == [x \in (DOMAIN d) \cup {key} |-> IF x = key THEN v ELSE d[x]]

(***************************************************************************)
(* Expressions and statements of the calculators, as data                  *)
(***************************************************************************)
Var(x) == [e |-> "var", x |-> x]
Lit(v) == [e |-> "lit", v |-> v]
Add(a, b) == [e |-> "add", a |-> a, b |-> b]
Sub(a, b) == [e |-> "sub", a |-> a, b |-> b]
Mul(a, b) == [e |-> "mul", a |-> a, b |-> b]
Div(a, b) == [e |-> "div", a |-> a, b |-> b]
Gt(a, b) == [e |-> "gt", a |-> a, b |-> b]
Le(a, b) == [e |-> "le", a |-> a, b |-> b]
\* m.get(key, default)
GetOr(m, key, default) == [e |-> "get", m |-> m, k |-> key, d |-> default]
\* a if c else b
IfExp(c, a, b) == [e |-> "ifexp", c |-> c, a |-> a, b |-> b]
\* {key: expression, ...}
DictLit(items) == [e |-> "dict", items |-> items]
\* []
ListLit == [e |-> "list"]

\* x = e
Asg(x, e) == [s |-> "asg", x |-> x, e |-> e]
\* d[key] = e
SetItem(d, key, e) == [s |-> "setitem", d |-> d, k |-> key, e |-> e]
\* l.append(text)
AppendTo(l, text) == [s |-> "append", l |-> l, text |-> text]
\* if e: body
If(e, body) == [s |-> "if", e |-> e, body |-> body]
\* return {'values': values, 'errors': errors}
ReturnRecord == [s |-> "return"]

(***************************************************************************)
(* Evaluation                                                              *)
(***************************************************************************)
\* the value of expression e with the local variables env; Exc when it raises
\* (a TypeError, a ZeroDivisionError, or the NameError of a name not bound)
RECURSIVE Eval(_, _)
\* a if c else b, c being the value of the condition
EvalIfExp(c, e, env) ==
    IF IsExc(c) THEN Exc
    ELSE IF c.b THEN Eval(e.a, env) ELSE Eval(e.b, env)

\* a dict literal of the values items
EvalDict(items) ==
    IF \E k \in DOMAIN items : IsExc(items[k]) THEN Exc ELSE PyDict(items)

Eval(e, env) ==
    CASE e.e = "var" -> IF e.x \in DOMAIN env THEN env[e.x] ELSE Exc
      [] e.e = "lit" -> e.v
      [] e.e = "add" -> PyAdd(Eval(e.a, env), Eval(e.b, env))
      [] e.e = "sub" -> PySub(Eval(e.a, env), Eval(e.b, env))
      [] e.e = "mul" -> PyMul(Eval(e.a, env), Eval(e.b, env))
      [] e.e = "div" -> PyDiv(Eval(e.a, env), Eval(e.b, env))
      [] e.e = "gt"  -> PyGt(Eval(e.a, env), Eval(e.b, env))
      [] e.e = "le"  -> PyLe(Eval(e.a, env), Eval(e.b, env))
      [] e.e = "get" -> DictGet(Eval(e.m, env).items, e.k, Eval(e.d, env))
      [] e.e = "ifexp" -> EvalIfExp(Eval(e.c, env), e, env)
      [] e.e = "dict" -> EvalDict([k \in DOMAIN e.items |-> Eval(e.items[k], env)])
      [] e.e = "list" -> PyList(<< >>)

\* how the execution of a list of statements ended, and the local variables
\* at its end: "end" (fell through), "return" or "raised" (an exception left
\* the statements)
Ended(status, env) == [status |-> status, env |-> env]

RECURSIVE RunRange(_, _, _, _)
\* the statement st, whose expression has the value v
ExecWith(st, env, v) ==
    IF IsExc(v) THEN Ended("raised", env)
    ELSE CASE st.s = "asg" -> Ended("end", Put(env, st.x, v))
           [] st.s = "setitem" ->
                Ended("end", Put(env, st.d, PyDict(Put(env[st.d].items, st.k, v))))
           [] st.s = "if" ->
                IF v.b THEN RunRange(st.body, 1, Len(st.body), env)
                ELSE Ended("end", env)

\* the statement st
Exec(st, env) ==
    CASE st.s = "append" ->
            Ended("end", Put(env, st.l, PyList(Append(env[st.l].items, st.text))))
      [] st.s = "return" -> Ended("return", env)
      [] OTHER -> ExecWith(st, env, Eval(st.e, env))

\* the statements prog[lo..hi] after earlier statements that ended as r
Then(prog, lo, hi, r) ==
    IF r.status = "end" THEN RunRange(prog, lo, hi, r.env) ELSE r

\* the statements prog[lo], ..., prog[hi], in order (halved, to bound the
\* depth of the recursion)
RunRange(prog, lo, hi, env) ==
    IF lo > hi THEN Ended("end", env)
    ELSE IF lo = hi THEN Exec(prog[lo], env)
    ELSE Then(prog, (lo + hi) \div 2 + 1, hi,
              RunRange(prog, lo, (lo + hi) \div 2, env))

\* the execution of the statements prog
Run(prog, env) == RunRange(prog, 1, Len(prog), env)

\* the record a calculator returns
Record(values, errors) == [values |-> values, errors |-> errors]

\* return {'values': values, 'errors': errors}
Return(env) == Record(env["values"].items, env["errors"].items)

\* faulty variant of the except clause: the exception is raised again
Reraise(env, prefix) == Exc

\* except Exception as e: errors.append(f"<prefix>{str(e)}"), then the return
\* after the try statement; the text of e is not modelled
ExceptException(env, prefix) ==
    Return(Put(env, "errors", PyList(Append(env["errors"].items, prefix))))

\* a calculator: the statements before its try statement, the try block, the
\* except clause and the final return
AfterTry(out, prefix) ==
    IF out.status = "raised" THEN ExceptException(out.env, prefix) ELSE Return(out.env)

\* the names bound when the body of a calculator starts: its two parameters,
\* bound to the mappings of the caller
Parameters(inputs, globais) ==
    [inputs |-> PyDict(inputs), globais |-> PyDict(globais)]

\* how the try block of a calculator ended, and its local variables then
Body(pre, try, inputs, globais) ==
    Run(try, Run(pre, Parameters(inputs, globais)).env)

Calculator(pre, try, prefix, inputs, globais) ==
    AfterTry(Body(pre, try, inputs, globais), prefix)

\* the message of the validation of the exchange rate
MsgCambio == "Câmbio deve ser maior que zero"

(***************************************************************************)
(* Constants of the program                                                *)
(***************************************************************************)
\* faulty variant of line 23: the factor 22.04622 of lines 431 and 518
FATOR_CONVERSAO_22_04622 == Dec(2204622, 5)

FATOR_CONVERSAO_CENTS_LB_PARA_TON == Dec(220462, 4)
SACAS_POR_TON == 20
FATOR_ETANOL_ANIDRO_LITROS_POR_SACA == Dec(32669, 3)
\* faulty variant of line 28: the factor of the anhydrous ethanol
FATOR_ETANOL_HIDRATADO_32_669 == Dec(32669, 3)

FATOR_ETANOL_HIDRATADO_LITROS_POR_SACA == Dec(31304, 3)
FATOR_ETANOL_ANIDRO_MI_LITROS_POR_SACA == Dec(33712, 3)
FATOR_ETANOL_HIDRATADO_MI_LITROS_POR_SACA == Dec(31504, 3)
FATOR_CONVERSAO_HIDRATADO == Dec(769, 4)
FATOR_CBIO_FC_ANIDRO == Dec(7124, 1)
\* faulty variant: the factor of the anhydrous ethanol
FATOR_CBIO_FC_HIDRATADO_712_4 == Dec(7124, 1)

FATOR_CBIO_FC_HIDRATADO == Dec(74975, 2)
CREDITO_TRIBUTARIO == 240
\* faulty variant of line 53: no adjustment
FATOR_AJUSTE_ETANOL_1 == Dec(1, 0)

FATOR_AJUSTE_ETANOL == Dec(1042, 3)

\* errors = [] and values = {}: the statements before the try statement of
\* every calculator (the VHP one has a third)
calc_pre ==
    <<Asg("errors", ListLit),
      Asg("values", DictLit(EmptyDict))>>

\* the prefixes of the messages of the except clauses:
\* errors.append(f"<prefix>{str(e)}")
ExceptMessages ==
    [calc_acucar_vhp_detalhado |->
        "Erro ao calcular açúcar VHP: ",
     calc_acucar_cristal_esalq |->
        "Erro ao calcular açúcar cristal ESALQ: ",
     calc_paridade_comercializacao_mi_ny |->
        "Erro ao calcular custo de comercialização açúcar cristal MI: ",
     calc_acucar_cristal_exportacao |->
        "Erro ao calcular açúcar cristal exportação: ",
     calc_acucar_cristal_exportacao_malha30 |->
        "Erro ao calcular açúcar cristal exportação malha 30: ",
     calc_etanol_anidro_exportacao |->
        "Erro ao calcular etanol anidro exportação: ",
     calc_etanol_hidratado_exportacao |->
        "Erro ao calcular etanol hidratado exportação: ",
     calc_etanol_anidro_mercado_interno |->
        "Erro ao calcular etanol anidro mercado interno: ",
     calc_etanol_hidratado_mercado_interno |->
        "Erro ao calcular etanol hidratado mercado interno: "]

(***************************************************************************)
(* calc_acucar_vhp_detalhado                                               *)
(***************************************************************************)
\* faulty variant of line 178: if cambio_brl_usd < 0
vhp_validacoes_lt ==
    If(Gt(Lit(Num(0)), Var("cambio_brl_usd")), <<AppendTo("errors", MsgCambio),
        ReturnRecord>>)

\* faulty variant of lines 178-180: the message without the return
vhp_validacoes_sem_return ==
    If(Le(Var("cambio_brl_usd"), Lit(Num(0))), <<AppendTo("errors", MsgCambio)>>)

\* line 178
vhp_validacoes ==
    If(Le(Var("cambio_brl_usd"), Lit(Num(0))), <<AppendTo("errors", MsgCambio),
        ReturnRecord>>)

\* faulty variant of line 188: the premium is used as given
vhp_premio_pol_as_given ==
    Asg("premio_pol_percentual", Var("premio_pol"))

\* line 188
vhp_premio_pol_percentual ==
    Asg("premio_pol_percentual", IfExp(Gt(Var("premio_pol"), Lit(Num(1))),
        Div(Var("premio_pol"), Lit(Num(100))), Var("premio_pol")))

\* faulty variant of line 191: the premium/discount is left out
vhp_sugar_ny_sem_premio_desconto ==
    Asg("sugar_ny_mais_pol_cents_lb", Mul(Var("acucar_ny_cents_lb"),
        Add(Lit(Num(1)), Var("premio_pol_percentual"))))

\* line 191
vhp_sugar_ny_mais_pol_cents_lb ==
    Asg("sugar_ny_mais_pol_cents_lb", Mul(Add(Var("acucar_ny_cents_lb"),
        Var("premio_desconto")), Add(Lit(Num(1)), Var("premio_pol_percentual"))))

\* faulty variant of line 270: the ex-mill value is taken for the FOB value
vhp_fob_from_pvu ==
    Asg("equivalente_vhp_cents_lb_fob", Var("equivalente_vhp_cents_lb_pvu"))

\* line 270
vhp_equivalente_vhp_cents_lb_fob ==
    Asg("equivalente_vhp_cents_lb_fob", Var("sugar_ny_mais_pol_cents_lb"))

\* faulty variant of line 251: the value is left in the local currency
vhp_cents_lb_pvu_sem_cambio ==
    Asg("equivalente_vhp_cents_lb_pvu",
        Div(Mul(Var("equivalente_vhp_reais_saca_pvu"), Lit(Num(SACAS_POR_TON))),
        Lit(FATOR_CONVERSAO_CENTS_LB_PARA_TON)))

\* line 251
vhp_equivalente_vhp_cents_lb_pvu ==
    Asg("equivalente_vhp_cents_lb_pvu",
        Div(Div(Mul(Var("equivalente_vhp_reais_saca_pvu"), Lit(Num(SACAS_POR_TON))),
        Lit(FATOR_CONVERSAO_CENTS_LB_PARA_TON)), Var("cambio_brl_usd")))

\* faulty variant of line 283: the value is stored in the mapping given as
\* inputs
vhp_inputs_equivalente_vhp_reais_saca_pvu ==
    SetItem("inputs", "equivalente_vhp_reais_saca_pvu",
        Var("equivalente_vhp_reais_saca_pvu"))

\* faulty variant of line 283: the per-bag value in USD is stored
vhp_values_reais_saca_em_usd ==
    SetItem("values", "equivalente_vhp_reais_saca_pvu", Var("valor_usd_saca"))

\* line 283
vhp_values_equivalente_vhp_reais_saca_pvu ==
    SetItem("values", "equivalente_vhp_reais_saca_pvu",
        Var("equivalente_vhp_reais_saca_pvu"))

calc_acucar_vhp_detalhado_pre ==
    <<Asg("errors", ListLit),
      Asg("values", DictLit(EmptyDict)),
      Asg("desenvolvimento", DictLit(EmptyDict))>>

calc_acucar_vhp_detalhado_try ==
    <<Asg("acucar_ny_cents_lb", GetOr(Var("inputs"), "acucar_ny_cents_lb",
          Lit(Num(0)))),
      Asg("premio_desconto", GetOr(Var("inputs"), "premio_desconto", Lit(Num(0)))),
      Asg("premio_pol", GetOr(Var("inputs"), "premio_pol", Lit(Num(0)))),
      Asg("custo_terminal_usd_ton", GetOr(Var("inputs"), "custo_terminal_usd_ton",
          Lit(Num(0)))),
      Asg("frete_brl_ton", GetOr(Var("inputs"), "frete_brl_ton", Lit(Num(0)))),
      Asg("cambio_brl_usd", GetOr(Var("globais"), "cambio_brl_usd", Lit(Num(1)))),
      vhp_validacoes,
      vhp_premio_pol_percentual,
      vhp_sugar_ny_mais_pol_cents_lb,
      SetItem("desenvolvimento", "passo1",
          DictLit([descricao |-> Lit(PyStr("Cálculo Sugar NY + Pol")),
          formula |-> Lit(PyStr("(Açúcar NY + Prêmio/Desconto) × (1 + Prêmio Pol%)")),
          valores |-> DictLit([acucar_ny_cents_lb |-> Var("acucar_ny_cents_lb"),
          premio_desconto_cents_lb |-> Var("premio_desconto"),
          premio_pol_percentual |-> Var("premio_pol_percentual"),
          soma_ny_premio |-> Add(Var("acucar_ny_cents_lb"), Var("premio_desconto")),
          fator_pol |-> Add(Lit(Num(1)), Var("premio_pol_percentual")),
          resultado_cents_lb |-> Var("sugar_ny_mais_pol_cents_lb")])])),
      Asg("sugar_ny_mais_pol_usd_ton", Mul(Var("sugar_ny_mais_pol_cents_lb"),
          Lit(FATOR_CONVERSAO_CENTS_LB_PARA_TON))),
      Asg("frete_usd_ton", Div(Var("frete_brl_ton"), Var("cambio_brl_usd"))),
      Asg("valor_usd_ton", Sub(Sub(Var("sugar_ny_mais_pol_usd_ton"),
          Var("custo_terminal_usd_ton")), Var("frete_usd_ton"))),
      Asg("valor_usd_saca", Div(Var("valor_usd_ton"), Lit(Num(SACAS_POR_TON)))),
      Asg("equivalente_vhp_reais_saca_pvu", Mul(Var("valor_usd_saca"),
          Var("cambio_brl_usd"))),
      SetItem("desenvolvimento", "passo2",
          DictLit([descricao |-> Lit(PyStr("Cálculo Equivalente VHP Reais/saca PVU")),
          formula |-> Lit(PyStr("(((Sugar NY+pol × 22.0462) - Custo Terminal - (Frete BRL/ton ÷ Câmbio)) ÷ 20) × Câmbio")),
          valores |-> DictLit([sugar_ny_mais_pol_cents_lb |-> Var("sugar_ny_mais_pol_cents_lb"),
          fator_conversao |-> Lit(FATOR_CONVERSAO_CENTS_LB_PARA_TON),
          sugar_ny_mais_pol_usd_ton |-> Var("sugar_ny_mais_pol_usd_ton"),
          custo_terminal_usd_ton |-> Var("custo_terminal_usd_ton"),
          frete_brl_ton |-> Var("frete_brl_ton"),
          cambio_brl_usd |-> Var("cambio_brl_usd"),
          frete_usd_ton |-> Var("frete_usd_ton"),
          valor_usd_ton |-> Var("valor_usd_ton"),
          sacas_por_ton |-> Lit(Num(SACAS_POR_TON)),
          valor_usd_saca |-> Var("valor_usd_saca"),
          resultado_brl_saca |-> Var("equivalente_vhp_reais_saca_pvu")])])),
      vhp_equivalente_vhp_cents_lb_pvu,
      SetItem("desenvolvimento", "passo3",
          DictLit([descricao |-> Lit(PyStr("Cálculo Equivalente VHP c/lb PVU")),
          formula |-> Lit(PyStr("((Equivalente VHP Reais/saca PVU × 20) ÷ 22.0462) ÷ Câmbio")),
          valores |-> DictLit([equivalente_vhp_reais_saca_pvu |-> Var("equivalente_vhp_reais_saca_pvu"),
          sacas_por_ton |-> Lit(Num(SACAS_POR_TON)),
          fator_conversao |-> Lit(FATOR_CONVERSAO_CENTS_LB_PARA_TON),
          cambio_brl_usd |-> Var("cambio_brl_usd"),
          resultado_cents_lb_pvu |-> Var("equivalente_vhp_cents_lb_pvu")])])),
      vhp_equivalente_vhp_cents_lb_fob,
      SetItem("desenvolvimento", "passo4",
          DictLit([descricao |-> Lit(PyStr("Equivalente VHP c/lb FOB")),
          formula |-> Lit(PyStr("Igual ao Sugar NY + Pol")),
          valores |-> DictLit([sugar_ny_mais_pol_cents_lb |-> Var("sugar_ny_mais_pol_cents_lb"),
          resultado_cents_lb_fob |-> Var("equivalente_vhp_cents_lb_fob")])])),
      SetItem("values", "sugar_ny_mais_pol_cents_lb",
          Var("sugar_ny_mais_pol_cents_lb")),
      vhp_values_equivalente_vhp_reais_saca_pvu,
      SetItem("values", "equivalente_vhp_cents_lb_pvu",
          Var("equivalente_vhp_cents_lb_pvu")),
      SetItem("values", "equivalente_vhp_cents_lb_fob",
          Var("equivalente_vhp_cents_lb_fob")),
      SetItem("values", "desenvolvimento", Var("desenvolvimento"))>>

calc_acucar_vhp_detalhado(inputs_, globais_) ==
    Calculator(calc_acucar_vhp_detalhado_pre, calc_acucar_vhp_detalhado_try,
               ExceptMessages["calc_acucar_vhp_detalhado"], inputs_, globais_)

(***************************************************************************)
(* calc_acucar_cristal_esalq                                               *)
(***************************************************************************)
\* faulty variant of line 344: imposto / 100 if imposto >= 1
esalq_imposto_percentual_ge ==
    Asg("imposto_percentual", IfExp(Le(Lit(Num(1)), Var("imposto")),
        Div(Var("imposto"), Lit(Num(100))), Var("imposto")))

\* line 344
esalq_imposto_percentual ==
    Asg("imposto_percentual", IfExp(Gt(Var("imposto"), Lit(Num(1))),
        Div(Var("imposto"), Lit(Num(100))), Var("imposto")))

\* faulty variant of line 364: the factor 22.0462 of the other values
esalq_cristal_cents_lb_fob_22_0462 ==
    Asg("equivalente_cristal_cents_lb_fob",
        Div(Div(Add(Add(Mul(Var("equivalente_cristal_reais_saca_pvu"),
        Lit(Num(SACAS_POR_TON))), Var("frete_santos_usina_brl_ton")),
        Var("custo_fobizacao_container_brl_ton")),
        Lit(FATOR_CONVERSAO_CENTS_LB_PARA_TON)), Var("cambio_brl_usd")))

\* line 364
esalq_equivalente_cristal_cents_lb_fob ==
    Asg("equivalente_cristal_cents_lb_fob",
        Div(Div(Add(Add(Mul(Var("equivalente_cristal_reais_saca_pvu"),
        Lit(Num(SACAS_POR_TON))), Var("frete_santos_usina_brl_ton")),
        Var("custo_fobizacao_container_brl_ton")), Lit(Dec(2204622, 5))),
        Var("cambio_brl_usd")))

\* faulty variant of line 360: the freight taken off
esalq_vhp_cents_lb_fob_menos_frete ==
    Asg("equivalente_vhp_cents_lb_fob",
        Div(Div(Add(Sub(Mul(Var("equivalente_vhp_reais_saca_pvu"),
        Lit(Num(SACAS_POR_TON))), Var("frete_santos_usina_brl_ton")),
        Var("custo_terminal_brl_ton")), Lit(FATOR_CONVERSAO_CENTS_LB_PARA_TON)),
        Var("cambio_brl_usd")))

\* line 360
esalq_equivalente_vhp_cents_lb_fob ==
    Asg("equivalente_vhp_cents_lb_fob",
        Div(Div(Add(Add(Mul(Var("equivalente_vhp_reais_saca_pvu"),
        Lit(Num(SACAS_POR_TON))), Var("frete_santos_usina_brl_ton")),
        Var("custo_terminal_brl_ton")), Lit(FATOR_CONVERSAO_CENTS_LB_PARA_TON)),
        Var("cambio_brl_usd")))

calc_acucar_cristal_esalq_try ==
    <<Asg("preco_esalq_brl_saca", GetOr(Var("inputs"), "preco_esalq_brl_saca",
          Lit(Num(0)))),
      Asg("imposto", GetOr(Var("inputs"), "imposto", Lit(Num(0)))),
      Asg("frete_santos_usina_brl_ton", GetOr(Var("inputs"),
          "frete_santos_usina_brl_ton", Lit(Num(0)))),
      Asg("custo_fobizacao_container_brl_ton", GetOr(Var("inputs"),
          "custo_fobizacao_container_brl_ton", Lit(Num(0)))),
      Asg("custo_vhp_para_cristal", GetOr(Var("inputs"), "custo_vhp_para_cristal",
          Lit(Num(0)))),
      Asg("cambio_brl_usd", GetOr(Var("globais"), "cambio_brl_usd", Lit(Num(1)))),
      Asg("custo_terminal_usd_ton", GetOr(Var("globais"), "custo_terminal_usd_ton",
          Lit(Num(0)))),
      If(Le(Var("cambio_brl_usd"), Lit(Num(0))), <<AppendTo("errors", MsgCambio),
          ReturnRecord>>),
      esalq_imposto_percentual,
      Asg("equivalente_cristal_reais_saca_pvu", Mul(Var("preco_esalq_brl_saca"),
          Sub(Lit(Num(1)), Var("imposto_percentual")))),
      Asg("equivalente_vhp_reais_saca_pvu",
          Sub(Var("equivalente_cristal_reais_saca_pvu"),
          Var("custo_vhp_para_cristal"))),
      Asg("equivalente_vhp_cents_lb_pvu",
          Div(Div(Mul(Var("equivalente_vhp_reais_saca_pvu"), Lit(Num(SACAS_POR_TON))),
          Lit(FATOR_CONVERSAO_CENTS_LB_PARA_TON)), Var("cambio_brl_usd"))),
      Asg("custo_terminal_brl_ton", Mul(Var("custo_terminal_usd_ton"),
          Var("cambio_brl_usd"))),
      esalq_equivalente_vhp_cents_lb_fob,
      Asg("equivalente_cristal_cents_lb_pvu",
          Sub(Div(Div(Mul(Var("equivalente_cristal_reais_saca_pvu"),
          Lit(Num(SACAS_POR_TON))), Lit(FATOR_CONVERSAO_CENTS_LB_PARA_TON)),
          Var("cambio_brl_usd")), Div(Div(Lit(Num(15)),
          Lit(FATOR_CONVERSAO_CENTS_LB_PARA_TON)), Var("cambio_brl_usd")))),
      esalq_equivalente_cristal_cents_lb_fob,
      SetItem("values", "equivalente_cristal_reais_saca_pvu",
          Var("equivalente_cristal_reais_saca_pvu")),
      SetItem("values", "equivalente_vhp_reais_saca_pvu",
          Var("equivalente_vhp_reais_saca_pvu")),
      SetItem("values", "equivalente_vhp_cents_lb_pvu",
          Var("equivalente_vhp_cents_lb_pvu")),
      SetItem("values", "equivalente_vhp_cents_lb_fob",
          Var("equivalente_vhp_cents_lb_fob")),
      SetItem("values", "equivalente_cristal_cents_lb_pvu",
          Var("equivalente_cristal_cents_lb_pvu")),
      SetItem("values", "equivalente_cristal_cents_lb_fob",
          Var("equivalente_cristal_cents_lb_fob"))>>

calc_acucar_cristal_esalq(inputs_, globais_) ==
    Calculator(calc_pre, calc_acucar_cristal_esalq_try,
               ExceptMessages["calc_acucar_cristal_esalq"], inputs_, globais_)

(***************************************************************************)
(* calc_paridade_comercializacao_mi_ny                                     *)
(***************************************************************************)
\* faulty variant of line 447: the ESALQ calculator's line 360, which
\* subtracts 15 / 22.0462 / cambio_brl_usd
mi_ny_cristal_cents_lb_pvu_menos_15 ==
    Asg("equivalente_cristal_cents_lb_pvu",
        Sub(Div(Div(Mul(Var("equivalente_cristal_reais_saca_pvu"),
        Lit(Num(SACAS_POR_TON))), Lit(FATOR_CONVERSAO_CENTS_LB_PARA_TON)),
        Var("cambio_brl_usd")),
        Div(Div(Lit(Num(15)), Lit(FATOR_CONVERSAO_CENTS_LB_PARA_TON)),
        Var("cambio_brl_usd"))))

\* line 447
mi_ny_equivalente_cristal_cents_lb_pvu ==
    Asg("equivalente_cristal_cents_lb_pvu",
        Div(Div(Mul(Var("equivalente_cristal_reais_saca_pvu"),
        Lit(Num(SACAS_POR_TON))), Lit(FATOR_CONVERSAO_CENTS_LB_PARA_TON)),
        Var("cambio_brl_usd")))

\* faulty variant of line 443: the terminal cost is converted in place, in
\* the mapping given as globais
mi_ny_custo_terminal_in_place ==
    SetItem("globais", "custo_terminal_usd_ton", Mul(Var("custo_terminal_usd_ton"),
        Var("cambio_brl_usd")))

\* line 443
mi_ny_custo_terminal_brl_ton ==
    Asg("custo_terminal_brl_ton", Mul(Var("custo_terminal_usd_ton"),
        Var("cambio_brl_usd")))

\* faulty variant of line 437: the conversion cost is not subtracted
mi_ny_vhp_reais_saca_sem_custo ==
    Asg("equivalente_vhp_reais_saca_pvu", Var("equivalente_cristal_reais_saca_pvu"))

\* line 437
mi_ny_equivalente_vhp_reais_saca_pvu ==
    Asg("equivalente_vhp_reais_saca_pvu",
        Sub(Var("equivalente_cristal_reais_saca_pvu"),
        Var("custo_vhp_para_cristal")))

calc_paridade_comercializacao_mi_ny_try ==
    <<Asg("acucar_ny_cents_lb", GetOr(Var("inputs"), "acucar_ny_cents_lb",
          Lit(Num(0)))),
      Asg("premio_fisico_mi", GetOr(Var("inputs"), "premio_fisico_mi", Lit(Num(0)))),
      Asg("cambio_brl_usd", GetOr(Var("globais"), "cambio_brl_usd", Lit(Num(1)))),
      Asg("custo_terminal_usd_ton", GetOr(Var("globais"), "custo_terminal_usd_ton",
          Lit(Num(0)))),
      Asg("frete_santos_usina_brl_ton", GetOr(Var("globais"),
          "frete_santos_usina_brl_ton", Lit(Num(0)))),
      Asg("custo_fobizacao_container_brl_ton", GetOr(Var("globais"),
          "custo_fobizacao_container_brl_ton", Lit(Num(0)))),
      Asg("custo_vhp_para_cristal", GetOr(Var("globais"), "custo_vhp_para_cristal",
          Lit(Num(0)))),
      If(Le(Var("cambio_brl_usd"), Lit(Num(0))), <<AppendTo("errors", MsgCambio),
          ReturnRecord>>),
      Asg("acucar_ny_usd_ton", Mul(Var("acucar_ny_cents_lb"), Lit(Dec(2204622, 5)))),
      Asg("acucar_com_premio_usd_ton", Add(Var("acucar_ny_usd_ton"),
          Var("premio_fisico_mi"))),
      Asg("acucar_com_premio_brl_ton", Mul(Var("acucar_com_premio_usd_ton"),
          Var("cambio_brl_usd"))),
      Asg("equivalente_cristal_reais_saca_pvu", Div(Var("acucar_com_premio_brl_ton"),
          Lit(Num(SACAS_POR_TON)))),
      mi_ny_equivalente_vhp_reais_saca_pvu,
      Asg("equivalente_vhp_cents_lb_pvu",
          Div(Div(Mul(Var("equivalente_vhp_reais_saca_pvu"), Lit(Num(SACAS_POR_TON))),
          Lit(FATOR_CONVERSAO_CENTS_LB_PARA_TON)), Var("cambio_brl_usd"))),
      mi_ny_custo_terminal_brl_ton,
      Asg("equivalente_vhp_cents_lb_fob",
          Div(Div(Add(Add(Mul(Var("equivalente_vhp_reais_saca_pvu"),
          Lit(Num(SACAS_POR_TON))), Var("frete_santos_usina_brl_ton")),
          Var("custo_terminal_brl_ton")), Lit(FATOR_CONVERSAO_CENTS_LB_PARA_TON)),
          Var("cambio_brl_usd"))),
      mi_ny_equivalente_cristal_cents_lb_pvu,
      Asg("equivalente_cristal_cents_lb_fob",
          Div(Div(Add(Add(Mul(Var("equivalente_cristal_reais_saca_pvu"),
          Lit(Num(SACAS_POR_TON))), Var("custo_fobizacao_container_brl_ton")),
          Var("frete_santos_usina_brl_ton")), Lit(FATOR_CONVERSAO_CENTS_LB_PARA_TON)),
          Var("cambio_brl_usd"))),
      SetItem("values", "equivalente_cristal_reais_saca_pvu",
          Var("equivalente_cristal_reais_saca_pvu")),
      SetItem("values", "equivalente_vhp_reais_saca_pvu",
          Var("equivalente_vhp_reais_saca_pvu")),
      SetItem("values", "equivalente_vhp_cents_lb_pvu",
          Var("equivalente_vhp_cents_lb_pvu")),
      SetItem("values", "equivalente_vhp_cents_lb_fob",
          Var("equivalente_vhp_cents_lb_fob")),
      SetItem("values", "equivalente_cristal_cents_lb_pvu",
          Var("equivalente_cristal_cents_lb_pvu")),
      SetItem("values", "equivalente_cristal_cents_lb_fob",
          Var("equivalente_cristal_cents_lb_fob"))>>

calc_paridade_comercializacao_mi_ny(inputs_, globais_) ==
    Calculator(calc_pre, calc_paridade_comercializacao_mi_ny_try,
               ExceptMessages["calc_paridade_comercializacao_mi_ny"], inputs_, globais_)

(***************************************************************************)
(* calc_acucar_cristal_exportacao                                          *)
(***************************************************************************)
\* faulty variant of line 538: from the per-bag value and the costs, without
\* the division by the exchange rate
exportacao_cristal_cents_lb_fob_sem_cambio ==
    Asg("equivalente_cristal_cents_lb_fob",
        Div(Add(Add(Mul(Var("equivalente_cristal_reais_saca_pvu"),
        Lit(Num(SACAS_POR_TON))), Var("custo_fobizacao_container_brl_ton")),
        Var("frete_brl_ton")), Lit(Dec(220462, 4))))

\* line 538
exportacao_equivalente_cristal_cents_lb_fob ==
    Asg("equivalente_cristal_cents_lb_fob", Div(Add(Mul(Var("acucar_ny_cents_lb"),
        Lit(Dec(2204622, 5))), Var("premio_fisico_exportacao")), Lit(Dec(220462, 4))))

calc_acucar_cristal_exportacao_try ==
    <<Asg("acucar_ny_cents_lb", GetOr(Var("inputs"), "acucar_ny_cents_lb",
          Lit(Num(0)))),
      Asg("premio_fisico_exportacao", GetOr(Var("inputs"), "premio_fisico_exportacao",
          Lit(Num(0)))),
      Asg("cambio_brl_usd", GetOr(Var("globais"), "cambio_brl_usd", Lit(Num(1)))),
      Asg("custo_terminal_usd_ton", GetOr(Var("globais"), "custo_terminal_usd_ton",
          Lit(Num(0)))),
      Asg("frete_brl_ton", GetOr(Var("globais"), "frete_brl_ton", Lit(Num(0)))),
      Asg("custo_fobizacao_container_brl_ton", GetOr(Var("globais"),
          "custo_fobizacao_container_brl_ton", Lit(Num(0)))),
      Asg("custo_vhp_para_cristal", GetOr(Var("globais"), "custo_vhp_para_cristal",
          Lit(Num(0)))),
      If(Le(Var("cambio_brl_usd"), Lit(Num(0))), <<AppendTo("errors", MsgCambio),
          ReturnRecord>>),
      Asg("acucar_ny_usd_ton", Mul(Var("acucar_ny_cents_lb"), Lit(Dec(2204622, 5)))),
      Asg("acucar_com_premio_usd_ton", Add(Var("acucar_ny_usd_ton"),
          Var("premio_fisico_exportacao"))),
      Asg("acucar_com_premio_brl_ton", Mul(Var("acucar_com_premio_usd_ton"),
          Var("cambio_brl_usd"))),
      Asg("equivalente_cristal_reais_saca_pvu",
          Div(Sub(Sub(Var("acucar_com_premio_brl_ton"),
          Var("custo_fobizacao_container_brl_ton")), Var("frete_brl_ton")),
          Lit(Num(SACAS_POR_TON)))),
      Asg("equivalente_vhp_reais_saca_pvu",
          Sub(Var("equivalente_cristal_reais_saca_pvu"),
          Var("custo_vhp_para_cristal"))),
      Asg("equivalente_vhp_cents_lb_pvu",
          Div(Div(Mul(Var("equivalente_vhp_reais_saca_pvu"), Lit(Num(SACAS_POR_TON))),
          Lit(FATOR_CONVERSAO_CENTS_LB_PARA_TON)), Var("cambio_brl_usd"))),
      Asg("custo_terminal_brl_ton", Mul(Var("custo_terminal_usd_ton"),
          Var("cambio_brl_usd"))),
      Asg("equivalente_vhp_cents_lb_fob",
          Div(Div(Add(Add(Mul(Var("equivalente_vhp_reais_saca_pvu"),
          Lit(Num(SACAS_POR_TON))), Var("frete_brl_ton")),
          Var("custo_terminal_brl_ton")), Lit(FATOR_CONVERSAO_CENTS_LB_PARA_TON)),
          Var("cambio_brl_usd"))),
      Asg("equivalente_cristal_cents_lb_pvu",
          Div(Div(Mul(Var("equivalente_cristal_reais_saca_pvu"),
          Lit(Num(SACAS_POR_TON))), Lit(FATOR_CONVERSAO_CENTS_LB_PARA_TON)),
          Var("cambio_brl_usd"))),
      exportacao_equivalente_cristal_cents_lb_fob,
      SetItem("values", "equivalente_cristal_reais_saca_pvu",
          Var("equivalente_cristal_reais_saca_pvu")),
      SetItem("values", "equivalente_vhp_reais_saca_pvu",
          Var("equivalente_vhp_reais_saca_pvu")),
      SetItem("values", "equivalente_vhp_cents_lb_pvu",
          Var("equivalente_vhp_cents_lb_pvu")),
      SetItem("values", "equivalente_vhp_cents_lb_fob",
          Var("equivalente_vhp_cents_lb_fob")),
      SetItem("values", "equivalente_cristal_cents_lb_pvu",
          Var("equivalente_cristal_cents_lb_pvu")),
      SetItem("values", "equivalente_cristal_cents_lb_fob",
          Var("equivalente_cristal_cents_lb_fob"))>>

calc_acucar_cristal_exportacao(inputs_, globais_) ==
    Calculator(calc_pre, calc_acucar_cristal_exportacao_try,
               ExceptMessages["calc_acucar_cristal_exportacao"], inputs_, globais_)

(***************************************************************************)
(* calc_acucar_cristal_exportacao_malha30                                  *)
(***************************************************************************)
\* faulty variant of line 626: 22.0462 in place of 22.04622
malha30_cristal_cents_lb_fob_22_0462 ==
    Asg("equivalente_cristal_cents_lb_fob", Div(Add(Mul(Var("acucar_ny_cents_lb"),
        Lit(Dec(220462, 4))), Var("premio_fisico_exportacao_malha30")),
        Lit(Dec(220462, 4))))

\* line 626
malha30_equivalente_cristal_cents_lb_fob ==
    Asg("equivalente_cristal_cents_lb_fob", Div(Add(Mul(Var("acucar_ny_cents_lb"),
        Lit(Dec(2204622, 5))), Var("premio_fisico_exportacao_malha30")),
        Lit(Dec(220462, 4))))

calc_acucar_cristal_exportacao_malha30_try ==
    <<Asg("acucar_ny_cents_lb", GetOr(Var("inputs"), "acucar_ny_cents_lb",
          Lit(Num(0)))),
      Asg("premio_fisico_exportacao_malha30", GetOr(Var("inputs"),
          "premio_fisico_exportacao_malha30", Lit(Num(0)))),
      Asg("cambio_brl_usd", GetOr(Var("globais"), "cambio_brl_usd", Lit(Num(1)))),
      Asg("custo_terminal_usd_ton", GetOr(Var("globais"), "custo_terminal_usd_ton",
          Lit(Num(0)))),
      Asg("frete_brl_ton", GetOr(Var("globais"), "frete_brl_ton", Lit(Num(0)))),
      Asg("custo_fobizacao_container_brl_ton", GetOr(Var("globais"),
          "custo_fobizacao_container_brl_ton", Lit(Num(0)))),
      Asg("custo_vhp_para_cristal", GetOr(Var("globais"), "custo_vhp_para_cristal",
          Lit(Num(0)))),
      If(Le(Var("cambio_brl_usd"), Lit(Num(0))), <<AppendTo("errors", MsgCambio),
          ReturnRecord>>),
      Asg("acucar_ny_usd_ton", Mul(Var("acucar_ny_cents_lb"), Lit(Dec(2204622, 5)))),
      Asg("acucar_com_premio_usd_ton", Add(Var("acucar_ny_usd_ton"),
          Var("premio_fisico_exportacao_malha30"))),
      Asg("acucar_com_premio_brl_ton", Mul(Var("acucar_com_premio_usd_ton"),
          Var("cambio_brl_usd"))),
      Asg("equivalente_cristal_reais_saca_pvu",
          Div(Sub(Sub(Var("acucar_com_premio_brl_ton"),
          Var("custo_fobizacao_container_brl_ton")), Var("frete_brl_ton")),
          Lit(Num(SACAS_POR_TON)))),
      Asg("equivalente_vhp_reais_saca_pvu",
          Sub(Var("equivalente_cristal_reais_saca_pvu"),
          Var("custo_vhp_para_cristal"))),
      Asg("equivalente_vhp_cents_lb_pvu",
          Div(Div(Mul(Var("equivalente_vhp_reais_saca_pvu"), Lit(Num(SACAS_POR_TON))),
          Lit(FATOR_CONVERSAO_CENTS_LB_PARA_TON)), Var("cambio_brl_usd"))),
      Asg("custo_terminal_brl_ton", Mul(Var("custo_terminal_usd_ton"),
          Var("cambio_brl_usd"))),
      Asg("equivalente_vhp_cents_lb_fob",
          Div(Div(Add(Add(Mul(Var("equivalente_vhp_reais_saca_pvu"),
          Lit(Num(SACAS_POR_TON))), Var("frete_brl_ton")),
          Var("custo_terminal_brl_ton")), Lit(FATOR_CONVERSAO_CENTS_LB_PARA_TON)),
          Var("cambio_brl_usd"))),
      Asg("equivalente_cristal_cents_lb_pvu",
          Div(Div(Mul(Var("equivalente_cristal_reais_saca_pvu"),
          Lit(Num(SACAS_POR_TON))), Lit(FATOR_CONVERSAO_CENTS_LB_PARA_TON)),
          Var("cambio_brl_usd"))),
      malha30_equivalente_cristal_cents_lb_fob,
      SetItem("values", "equivalente_cristal_reais_saca_pvu",
          Var("equivalente_cristal_reais_saca_pvu")),
      SetItem("values", "equivalente_vhp_reais_saca_pvu",
          Var("equivalente_vhp_reais_saca_pvu")),
      SetItem("values", "equivalente_vhp_cents_lb_pvu",
          Var("equivalente_vhp_cents_lb_pvu")),
      SetItem("values", "equivalente_vhp_cents_lb_fob",
          Var("equivalente_vhp_cents_lb_fob")),
      SetItem("values", "equivalente_cristal_cents_lb_pvu",
          Var("equivalente_cristal_cents_lb_pvu")),
      SetItem("values", "equivalente_cristal_cents_lb_fob",
          Var("equivalente_cristal_cents_lb_fob"))>>

calc_acucar_cristal_exportacao_malha30(inputs_, globais_) ==
    Calculator(calc_pre, calc_acucar_cristal_exportacao_malha30_try,
               ExceptMessages["calc_acucar_cristal_exportacao_malha30"], inputs_, globais_)

(***************************************************************************)
(* calc_etanol_anidro_exportacao                                           *)
(***************************************************************************)
calc_etanol_anidro_exportacao_try ==
    <<Asg("preco_anidro_fob_usd", GetOr(Var("inputs"), "preco_anidro_fob_usd",
          Lit(Num(0)))),
      Asg("frete_etanol_porto_usina", GetOr(Var("inputs"), "frete_etanol_porto_usina",
          Lit(Num(0)))),
      Asg("custo_terminal_etanol", GetOr(Var("inputs"), "custo_terminal_etanol",
          Lit(Num(0)))),
      Asg("custo_supervisao_documentos", GetOr(Var("inputs"),
          "custo_supervisao_documentos", Lit(Num(0)))),
      Asg("custos_adicionais_demurrage", GetOr(Var("inputs"),
          "custos_adicionais_demurrage", Lit(Num(0)))),
      Asg("cambio_brl_usd", GetOr(Var("globais"), "cambio_brl_usd", Lit(Num(1)))),
      Asg("frete_brl_ton", GetOr(Var("globais"), "frete_brl_ton", Lit(Num(0)))),
      Asg("custo_terminal_usd_ton", GetOr(Var("globais"), "custo_terminal_usd_ton",
          Lit(Num(0)))),
      If(Le(Var("cambio_brl_usd"), Lit(Num(0))), <<AppendTo("errors", MsgCambio),
          ReturnRecord>>),
      Asg("preco_anidro_brl", Mul(Var("preco_anidro_fob_usd"), Var("cambio_brl_usd"))),
      Asg("preco_liquido_pvu", Sub(Sub(Sub(Sub(Var("preco_anidro_brl"),
          Var("frete_etanol_porto_usina")), Var("custo_terminal_etanol")),
          Var("custo_supervisao_documentos")), Var("custos_adicionais_demurrage"))),
      Asg("equivalente_vhp_reais_saca_pvu", Div(Var("preco_liquido_pvu"),
          Lit(FATOR_ETANOL_ANIDRO_LITROS_POR_SACA))),
      Asg("equivalente_vhp_cents_lb_pvu",
          Div(Div(Div(Mul(Var("equivalente_vhp_reais_saca_pvu"),
          Lit(Num(SACAS_POR_TON))), Lit(FATOR_CONVERSAO_CENTS_LB_PARA_TON)),
          Var("cambio_brl_usd")), Lit(FATOR_AJUSTE_ETANOL))),
      Asg("custo_terminal_brl_ton", Mul(Var("custo_terminal_usd_ton"),
          Var("cambio_brl_usd"))),
      Asg("equivalente_vhp_cents_lb_fob",
          Div(Div(Div(Add(Add(Mul(Var("equivalente_vhp_reais_saca_pvu"),
          Lit(Num(SACAS_POR_TON))), Var("frete_brl_ton")),
          Var("custo_terminal_brl_ton")), Lit(FATOR_CONVERSAO_CENTS_LB_PARA_TON)),
          Var("cambio_brl_usd")), Lit(FATOR_AJUSTE_ETANOL))),
      SetItem("values", "preco_liquido_pvu", Var("preco_liquido_pvu")),
      SetItem("values", "equivalente_vhp_reais_saca_pvu",
          Var("equivalente_vhp_reais_saca_pvu")),
      SetItem("values", "equivalente_vhp_cents_lb_pvu",
          Var("equivalente_vhp_cents_lb_pvu")),
      SetItem("values", "equivalente_vhp_cents_lb_fob",
          Var("equivalente_vhp_cents_lb_fob"))>>

calc_etanol_anidro_exportacao(inputs_, globais_) ==
    Calculator(calc_pre, calc_etanol_anidro_exportacao_try,
               ExceptMessages["calc_etanol_anidro_exportacao"], inputs_, globais_)

(***************************************************************************)
(* calc_etanol_hidratado_exportacao                                        *)
(***************************************************************************)
calc_etanol_hidratado_exportacao_try ==
    <<Asg("preco_hidratado_fob_usd", GetOr(Var("inputs"), "preco_hidratado_fob_usd",
          Lit(Num(0)))),
      Asg("frete_etanol_porto_usina", GetOr(Var("inputs"), "frete_etanol_porto_usina",
          Lit(Num(0)))),
      Asg("custo_terminal_etanol", GetOr(Var("inputs"), "custo_terminal_etanol",
          Lit(Num(0)))),
      Asg("custo_supervisao_documentos", GetOr(Var("inputs"),
          "custo_supervisao_documentos", Lit(Num(0)))),
      Asg("custos_adicionais_demurrage", GetOr(Var("inputs"),
          "custos_adicionais_demurrage", Lit(Num(0)))),
      Asg("cambio_brl_usd", GetOr(Var("globais"), "cambio_brl_usd", Lit(Num(1)))),
      Asg("frete_brl_ton", GetOr(Var("globais"), "frete_brl_ton", Lit(Num(0)))),
      Asg("custo_terminal_usd_ton", GetOr(Var("globais"), "custo_terminal_usd_ton",
          Lit(Num(0)))),
      If(Le(Var("cambio_brl_usd"), Lit(Num(0))), <<AppendTo("errors", MsgCambio),
          ReturnRecord>>),
      Asg("preco_hidratado_brl", Mul(Var("preco_hidratado_fob_usd"),
          Var("cambio_brl_usd"))),
      Asg("preco_liquido_pvu", Sub(Sub(Sub(Sub(Var("preco_hidratado_brl"),
          Var("frete_etanol_porto_usina")), Var("custo_terminal_etanol")),
          Var("custo_supervisao_documentos")), Var("custos_adicionais_demurrage"))),
      Asg("equivalente_vhp_reais_saca_pvu", Div(Var("preco_liquido_pvu"),
          Lit(FATOR_ETANOL_HIDRATADO_LITROS_POR_SACA))),
      Asg("equivalente_vhp_cents_lb_pvu",
          Div(Div(Div(Mul(Var("equivalente_vhp_reais_saca_pvu"),
          Lit(Num(SACAS_POR_TON))), Lit(FATOR_CONVERSAO_CENTS_LB_PARA_TON)),
          Var("cambio_brl_usd")), Lit(FATOR_AJUSTE_ETANOL))),
      Asg("custo_terminal_brl_ton", Mul(Var("custo_terminal_usd_ton"),
          Var("cambio_brl_usd"))),
      Asg("equivalente_vhp_cents_lb_fob",
          Div(Div(Div(Add(Add(Mul(Var("equivalente_vhp_reais_saca_pvu"),
          Lit(Num(SACAS_POR_TON))), Var("frete_brl_ton")),
          Var("custo_terminal_brl_ton")), Lit(FATOR_CONVERSAO_CENTS_LB_PARA_TON)),
          Var("cambio_brl_usd")), Lit(FATOR_AJUSTE_ETANOL))),
      SetItem("values", "preco_liquido_pvu", Var("preco_liquido_pvu")),
      SetItem("values", "equivalente_vhp_reais_saca_pvu",
          Var("equivalente_vhp_reais_saca_pvu")),
      SetItem("values", "equivalente_vhp_cents_lb_pvu",
          Var("equivalente_vhp_cents_lb_pvu")),
      SetItem("values", "equivalente_vhp_cents_lb_fob",
          Var("equivalente_vhp_cents_lb_fob"))>>

calc_etanol_hidratado_exportacao(inputs_, globais_) ==
    Calculator(calc_pre, calc_etanol_hidratado_exportacao_try,
               ExceptMessages["calc_etanol_hidratado_exportacao"], inputs_, globais_)

(***************************************************************************)
(* calc_etanol_anidro_mercado_interno                                      *)
(***************************************************************************)
\* faulty variant of line 871: the factor 0.6 is left out
anidro_mi_cbio_sem_fator ==
    Asg("cbio_liquido_impostos", Mul(Var("valor_cbio_bruto"), Lit(Dec(7575, 4))))

\* line 871
anidro_mi_cbio_liquido_impostos ==
    Asg("cbio_liquido_impostos", Mul(Mul(Var("valor_cbio_bruto"), Lit(Dec(7575, 4))),
        Lit(Dec(6, 1))))

calc_etanol_anidro_mercado_interno_try ==
    <<Asg("preco_anidro_com_impostos_brl", GetOr(Var("inputs"),
          "preco_anidro_com_impostos_brl", Lit(Num(0)))),
      Asg("pis_cofins_brl", GetOr(Var("inputs"), "pis_cofins_brl", Lit(Num(0)))),
      Asg("contribuicao_agroindustria", GetOr(Var("inputs"),
          "contribuicao_agroindustria", Lit(Num(0)))),
      Asg("valor_cbio_bruto", GetOr(Var("inputs"), "valor_cbio_bruto", Lit(Num(0)))),
      Asg("cambio_brl_usd", GetOr(Var("globais"), "cambio_brl_usd", Lit(Num(1)))),
      Asg("frete_brl_ton", GetOr(Var("globais"), "frete_brl_ton", Lit(Num(0)))),
      Asg("custo_terminal_usd_ton", GetOr(Var("globais"), "custo_terminal_usd_ton",
          Lit(Num(0)))),
      Asg("premio_fisico_mi", GetOr(Var("globais"), "premio_fisico_mi", Lit(Num(0)))),
      Asg("custo_fobizacao_container_brl_ton", GetOr(Var("globais"),
          "custo_fobizacao_container_brl_ton", Lit(Num(0)))),
      If(Le(Var("cambio_brl_usd"), Lit(Num(0))), <<AppendTo("errors", MsgCambio),
          ReturnRecord>>),
      Asg("contribuicao_percentual", IfExp(Gt(Var("contribuicao_agroindustria"),
          Lit(Num(1))), Div(Var("contribuicao_agroindustria"), Lit(Num(100))),
          Var("contribuicao_agroindustria"))),
      Asg("preco_liquido_pvu", Sub(Mul(Var("preco_anidro_com_impostos_brl"),
          Sub(Lit(Num(1)), Var("contribuicao_percentual"))), Var("pis_cofins_brl"))),
      anidro_mi_cbio_liquido_impostos,
      Asg("preco_liquido_pvu_mais_cbio", Add(Var("preco_liquido_pvu"),
          Mul(Div(Var("cbio_liquido_impostos"), Lit(FATOR_CBIO_FC_ANIDRO)),
          Lit(Num(1000))))),
      Asg("equivalente_hidratado", Div(Var("preco_liquido_pvu"), Add(Lit(Num(1)),
          Lit(FATOR_CONVERSAO_HIDRATADO)))),
      Asg("equivalente_vhp_reais_saca_pvu", Div(Var("preco_liquido_pvu_mais_cbio"),
          Lit(FATOR_ETANOL_ANIDRO_MI_LITROS_POR_SACA))),
      Asg("equivalente_vhp_cents_lb_pvu",
          Div(Div(Mul(Var("equivalente_vhp_reais_saca_pvu"), Lit(Num(SACAS_POR_TON))),
          Lit(FATOR_CONVERSAO_CENTS_LB_PARA_TON)), Var("cambio_brl_usd"))),
      Asg("custo_terminal_brl_ton", Mul(Var("custo_terminal_usd_ton"),
          Var("cambio_brl_usd"))),
      Asg("equivalente_vhp_cents_lb_fob",
          Div(Div(Div(Add(Add(Mul(Div(Var("preco_liquido_pvu_mais_cbio"),
          Lit(FATOR_ETANOL_ANIDRO_MI_LITROS_POR_SACA)), Lit(Num(SACAS_POR_TON))),
          Var("frete_brl_ton")), Var("custo_terminal_brl_ton")),
          Lit(FATOR_CONVERSAO_CENTS_LB_PARA_TON)), Var("cambio_brl_usd")),
          Lit(FATOR_AJUSTE_ETANOL))),
      Asg("premio_fisico_brl_ton", Mul(Var("premio_fisico_mi"), Var("cambio_brl_usd"))),
      Asg("equivalente_cristal_cents_lb_pvu",
          Div(Div(Add(Mul(Div(Var("preco_liquido_pvu_mais_cbio"),
          Lit(FATOR_ETANOL_ANIDRO_MI_LITROS_POR_SACA)), Lit(Num(SACAS_POR_TON))),
          Var("premio_fisico_brl_ton")), Lit(FATOR_CONVERSAO_CENTS_LB_PARA_TON)),
          Var("cambio_brl_usd"))),
      Asg("equivalente_cristal_reais_saca_pvu",
          Mul(Div(Mul(Var("equivalente_cristal_cents_lb_pvu"),
          Lit(FATOR_CONVERSAO_CENTS_LB_PARA_TON)), Lit(Num(SACAS_POR_TON))),
          Var("cambio_brl_usd"))),
      Asg("equivalente_cristal_cents_lb_fob",
          Div(Div(Add(Add(Add(Mul(Div(Var("preco_liquido_pvu_mais_cbio"),
          Lit(FATOR_ETANOL_ANIDRO_MI_LITROS_POR_SACA)), Lit(Num(SACAS_POR_TON))),
          Var("frete_brl_ton")), Var("custo_fobizacao_container_brl_ton")),
          Var("premio_fisico_brl_ton")), Lit(FATOR_CONVERSAO_CENTS_LB_PARA_TON)),
          Var("cambio_brl_usd"))),
      SetItem("values", "preco_liquido_pvu", Var("preco_liquido_pvu")),
      SetItem("values", "cbio_liquido_impostos", Var("cbio_liquido_impostos")),
      SetItem("values", "preco_liquido_pvu_mais_cbio",
          Var("preco_liquido_pvu_mais_cbio")),
      SetItem("values", "equivalente_hidratado", Var("equivalente_hidratado")),
      SetItem("values", "equivalente_vhp_reais_saca_pvu",
          Var("equivalente_vhp_reais_saca_pvu")),
      SetItem("values", "equivalente_vhp_cents_lb_pvu",
          Var("equivalente_vhp_cents_lb_pvu")),
      SetItem("values", "equivalente_vhp_cents_lb_fob",
          Var("equivalente_vhp_cents_lb_fob")),
      SetItem("values", "equivalente_cristal_cents_lb_pvu",
          Var("equivalente_cristal_cents_lb_pvu")),
      SetItem("values", "equivalente_cristal_reais_saca_pvu",
          Var("equivalente_cristal_reais_saca_pvu")),
      SetItem("values", "equivalente_cristal_cents_lb_fob",
          Var("equivalente_cristal_cents_lb_fob"))>>

calc_etanol_anidro_mercado_interno(inputs_, globais_) ==
    Calculator(calc_pre, calc_etanol_anidro_mercado_interno_try,
               ExceptMessages["calc_etanol_anidro_mercado_interno"], inputs_, globais_)

(***************************************************************************)
(* calc_etanol_hidratado_mercado_interno                                   *)
(***************************************************************************)
\* faulty variant of line 1004: the formula of the anhydrous ethanol, without
\* the ICMS
hidratado_mi_preco_liquido_sem_icms ==
    Asg("preco_liquido_pvu", Sub(Mul(Var("preco_hidratado_com_impostos_brl"),
        Sub(Lit(Num(1)), Var("contribuicao_percentual"))), Var("pis_cofins_brl")))

\* line 1004
hidratado_mi_preco_liquido_pvu ==
    Asg("preco_liquido_pvu", Sub(Mul(Mul(Var("preco_hidratado_com_impostos_brl"),
        Sub(Lit(Num(1)), Var("contribuicao_percentual"))), Sub(Lit(Num(1)),
        Var("icms_percentual_val"))), Var("pis_cofins_brl")))

\* line 1014, for the tax credit credito
hidratado_mi_mais_credito(credito) ==
    Asg("preco_liquido_pvu_mais_cbio_mais_credito",
        Add(Var("preco_liquido_pvu_mais_cbio"), Lit(Num(credito))))

\* faulty variant of line 1024: the VHP per bag of the price with the credit
hidratado_mi_vhp_reais_saca_com_credito ==
    Asg("equivalente_vhp_reais_saca_pvu",
        Div(Var("preco_liquido_pvu_mais_cbio_mais_credito"),
            Lit(FATOR_ETANOL_HIDRATADO_MI_LITROS_POR_SACA)))

\* line 1024
hidratado_mi_equivalente_vhp_reais_saca_pvu ==
    Asg("equivalente_vhp_reais_saca_pvu", Div(Var("preco_liquido_pvu_mais_cbio"),
        Lit(FATOR_ETANOL_HIDRATADO_MI_LITROS_POR_SACA)))

calc_etanol_hidratado_mercado_interno_try ==
    <<Asg("preco_hidratado_com_impostos_brl", GetOr(Var("inputs"),
          "preco_hidratado_com_impostos_brl", Lit(Num(0)))),
      Asg("pis_cofins_brl", GetOr(Var("inputs"), "pis_cofins_brl", Lit(Num(0)))),
      Asg("icms_percentual", GetOr(Var("inputs"), "icms_percentual", Lit(Num(0)))),
      Asg("contribuicao_agroindustria", GetOr(Var("inputs"),
          "contribuicao_agroindustria", Lit(Num(0)))),
      Asg("valor_cbio_bruto", GetOr(Var("inputs"), "valor_cbio_bruto", Lit(Num(0)))),
      Asg("cambio_brl_usd", GetOr(Var("globais"), "cambio_brl_usd", Lit(Num(1)))),
      Asg("frete_brl_ton", GetOr(Var("globais"), "frete_brl_ton", Lit(Num(0)))),
      Asg("custo_terminal_usd_ton", GetOr(Var("globais"), "custo_terminal_usd_ton",
          Lit(Num(0)))),
      Asg("premio_fisico_mi", GetOr(Var("globais"), "premio_fisico_mi", Lit(Num(0)))),
      Asg("custo_fobizacao_container_brl_ton", GetOr(Var("globais"),
          "custo_fobizacao_container_brl_ton", Lit(Num(0)))),
      If(Le(Var("cambio_brl_usd"), Lit(Num(0))), <<AppendTo("errors", MsgCambio),
          ReturnRecord>>),
      Asg("icms_percentual_val", IfExp(Gt(Var("icms_percentual"), Lit(Num(1))),
          Div(Var("icms_percentual"), Lit(Num(100))), Var("icms_percentual"))),
      Asg("contribuicao_percentual", IfExp(Gt(Var("contribuicao_agroindustria"),
          Lit(Num(1))), Div(Var("contribuicao_agroindustria"), Lit(Num(100))),
          Var("contribuicao_agroindustria"))),
      Asg("cbio_liquido_impostos", Mul(Mul(Var("valor_cbio_bruto"), Lit(Dec(7575, 4))),
          Lit(Dec(6, 1)))),
      hidratado_mi_preco_liquido_pvu,
      Asg("preco_liquido_pvu_mais_cbio", Add(Var("preco_liquido_pvu"),
          Mul(Div(Var("cbio_liquido_impostos"), Lit(FATOR_CBIO_FC_HIDRATADO)),
          Lit(Num(1000))))),
      Asg("equivalente_anidro", Mul(Var("preco_liquido_pvu"), Add(Lit(Num(1)),
          Lit(FATOR_CONVERSAO_HIDRATADO)))),
      hidratado_mi_mais_credito(CREDITO_TRIBUTARIO),
      hidratado_mi_equivalente_vhp_reais_saca_pvu,
      Asg("equivalente_vhp_cents_lb_pvu",
          Div(Div(Mul(Var("equivalente_vhp_reais_saca_pvu"), Lit(Num(SACAS_POR_TON))),
          Lit(FATOR_CONVERSAO_CENTS_LB_PARA_TON)), Var("cambio_brl_usd"))),
      Asg("custo_terminal_brl_ton", Mul(Var("custo_terminal_usd_ton"),
          Var("cambio_brl_usd"))),
      Asg("equivalente_vhp_cents_lb_fob",
          Div(Div(Div(Add(Add(Mul(Div(Var("preco_liquido_pvu_mais_cbio"),
          Lit(FATOR_ETANOL_HIDRATADO_MI_LITROS_POR_SACA)), Lit(Num(SACAS_POR_TON))),
          Var("frete_brl_ton")), Var("custo_terminal_brl_ton")),
          Lit(FATOR_CONVERSAO_CENTS_LB_PARA_TON)), Var("cambio_brl_usd")),
          Lit(FATOR_AJUSTE_ETANOL))),
      Asg("premio_fisico_brl_ton", Mul(Var("premio_fisico_mi"), Var("cambio_brl_usd"))),
      Asg("equivalente_cristal_cents_lb_pvu",
          Div(Div(Add(Mul(Div(Var("preco_liquido_pvu_mais_cbio"),
          Lit(FATOR_ETANOL_HIDRATADO_MI_LITROS_POR_SACA)), Lit(Num(SACAS_POR_TON))),
          Var("premio_fisico_brl_ton")), Lit(FATOR_CONVERSAO_CENTS_LB_PARA_TON)),
          Var("cambio_brl_usd"))),
      Asg("equivalente_cristal_reais_saca_pvu",
          Mul(Div(Mul(Var("equivalente_cristal_cents_lb_pvu"),
          Lit(FATOR_CONVERSAO_CENTS_LB_PARA_TON)), Lit(Num(SACAS_POR_TON))),
          Var("cambio_brl_usd"))),
      Asg("equivalente_cristal_cents_lb_fob",
          Div(Div(Add(Add(Add(Mul(Div(Var("preco_liquido_pvu_mais_cbio"),
          Lit(FATOR_ETANOL_HIDRATADO_MI_LITROS_POR_SACA)), Lit(Num(SACAS_POR_TON))),
          Var("frete_brl_ton")), Var("custo_fobizacao_container_brl_ton")),
          Var("premio_fisico_brl_ton")), Lit(FATOR_CONVERSAO_CENTS_LB_PARA_TON)),
          Var("cambio_brl_usd"))),
      SetItem("values", "preco_liquido_pvu", Var("preco_liquido_pvu")),
      SetItem("values", "preco_liquido_pvu_mais_cbio",
          Var("preco_liquido_pvu_mais_cbio")),
      SetItem("values", "equivalente_anidro", Var("equivalente_anidro")),
      SetItem("values", "preco_liquido_pvu_mais_cbio_mais_credito",
          Var("preco_liquido_pvu_mais_cbio_mais_credito")),
      SetItem("values", "equivalente_vhp_reais_saca_pvu",
          Var("equivalente_vhp_reais_saca_pvu")),
      SetItem("values", "equivalente_vhp_cents_lb_pvu",
          Var("equivalente_vhp_cents_lb_pvu")),
      SetItem("values", "equivalente_vhp_cents_lb_fob",
          Var("equivalente_vhp_cents_lb_fob")),
      SetItem("values", "equivalente_cristal_cents_lb_pvu",
          Var("equivalente_cristal_cents_lb_pvu")),
      SetItem("values", "equivalente_cristal_reais_saca_pvu",
          Var("equivalente_cristal_reais_saca_pvu")),
      SetItem("values", "equivalente_cristal_cents_lb_fob",
          Var("equivalente_cristal_cents_lb_fob"))>>

calc_etanol_hidratado_mercado_interno(inputs_, globais_) ==
    Calculator(calc_pre, calc_etanol_hidratado_mercado_interno_try,
               ExceptMessages["calc_etanol_hidratado_mercado_interno"], inputs_, globais_)


(***************************************************************************)
(* The calculation engine called with a Parameter Set                      *)
(*                                                                         *)
(* inputs, globais: the two mappings every calculator is called with (a    *)
(*   mapping is a function whose domain is the set of keys present); after *)
(*   a call they are the mappings the body of the calculator left;         *)
(* results: the record each calculator returned, by calculator name;       *)
(* pc: the number of calculators called so far, in the order of the        *)
(*   calculation pass of the program; under SpecAnyOrder, the number of    *)
(*   calculators that have returned a record;                              *)
(* config_file: the file SIDEBAR_CONFIG_FILE;                              *)
(* saved_config: what load_sidebar_config returned in this run of the      *)
(*   script;                                                               *)
(* session_state: st.session_state, a mapping that holds                   *)
(*   last_saved_values or nothing;                                         *)
(* current_values: the values of the 26 widgets of the sidebar;            *)
(* arguments: the two mappings each calculator was called with in this run *)
(*   of the script, as they were when it was called;                       *)
(* display: what this run of the script has shown;                         *)
(* stage: where the run of the script is;                                  *)
(* saved: whether this run has called save_sidebar_config.                 *)
(***************************************************************************)
VARIABLES inputs, globais, results, pc,
          config_file, saved_config, session_state, current_values,
          arguments, display, stage, saved

\* the variables of the script around the calculators
dashboard ==
    <<config_file, saved_config, session_state, current_values,
      arguments, display, stage, saved>>

vars == <<inputs, globais, results, pc, dashboard>>

Calculators ==
    <<"calc_acucar_vhp_detalhado", "calc_acucar_cristal_esalq",
      "calc_paridade_comercializacao_mi_ny", "calc_acucar_cristal_exportacao",
      "calc_acucar_cristal_exportacao_malha30", "calc_etanol_anidro_exportacao",
      "calc_etanol_hidratado_exportacao", "calc_etanol_anidro_mercado_interno",
      "calc_etanol_hidratado_mercado_interno">>

CalcNames == {Calculators[i] : i \in 1..Len(Calculators)}

\* the position of a calculator in the pass
Pos(c) == CHOOSE i \in 1..Len(Calculators) : Calculators[i] = c

Called(c) == Pos(c) <= pc

\* the numeric alternatives of a parameter: its base value plus 1 .. MaxDelta
MaxDelta == 1

\* the base Parameter Set: Scenario A for the VHP sugar, the defaults of the
\* sidebar for the Crystal sugar, non-zero prices and costs for the ethanol
BaseInputs ==
    [acucar_ny_cents_lb |-> Dec(158, 1),
     premio_desconto |-> Dec(-1, 1),
     premio_pol |-> Dec(42, 1),
     custo_terminal_usd_ton |-> Dec(125, 1),
     frete_brl_ton |-> Num(202),
     preco_esalq_brl_saca |-> Dec(11567, 2),
     imposto |-> Dec(985, 2),
     frete_santos_usina_brl_ton |-> Num(203),
     custo_fobizacao_container_brl_ton |-> Num(198),
     custo_vhp_para_cristal |-> Dec(925, 2),
     premio_fisico_mi |-> Num(30),
     premio_fisico_exportacao |-> Num(40),
     premio_fisico_exportacao_malha30 |-> Num(50),
     preco_anidro_fob_usd |-> Num(600),
     frete_etanol_porto_usina |-> Num(150),
     custo_terminal_etanol |-> Num(60),
     custo_supervisao_documentos |-> Num(5),
     custos_adicionais_demurrage |-> Num(7),
     preco_hidratado_fob_usd |-> Num(550),
     preco_anidro_com_impostos_brl |-> Num(3200),
     pis_cofins_brl |-> Dec(1922, 1),
     contribuicao_agroindustria |-> Dec(25, 1),
     valor_cbio_bruto |-> Num(100),
     preco_hidratado_com_impostos_brl |-> Num(2900),
     icms_percentual |-> Num(12)]

BaseGlobais ==
    [cambio_brl_usd |-> Dec(535, 2),
     custo_terminal_usd_ton |-> Dec(125, 1),
     frete_santos_usina_brl_ton |-> Num(203),
     frete_brl_ton |-> Num(202),
     custo_fobizacao_container_brl_ton |-> Num(198),
     custo_vhp_para_cristal |-> Dec(925, 2),
     premio_fisico_mi |-> Num(30)]

\* a key left out of the mapping
Absent == [t |-> "absent", neg |-> FALSE, num |-> << >>, den |-> <<1>>]

\* the export premium for which, at exchange rate c and the base costs, the
\* export calculators' Crystal per-bag value (line 521) is the one of the
\* domestic-parity calculator (line 434):
\* premio_fisico_mi + (custo_fobizacao_container_brl_ton + frete_brl_ton) / c
MatchedPremio(c) ==
    PyAdd(BaseInputs["premio_fisico_mi"],
          PyDiv(PyAdd(BaseGlobais["custo_fobizacao_container_brl_ton"],
                      BaseGlobais["frete_brl_ton"]), c))

\* the values a parameter is given in place of its base value: missing, None,
\* a non-numeric object, 0, the base value plus 1 .. MaxDelta; for the
\* dual-representation percentage fields also values around the threshold 1
\* and around 100; for the premiums of the two export Crystal calculators
\* also each other's base value and the premiums matched to the domestic
\* one; for the FOB price of the hydrated ethanol also the one of the
\* anhydrous ethanol
Alternatives(base, key) ==
    {Absent, None, Text, Zero}
    \cup {PyAdd(base[key], Num(k)) : k \in 1..MaxDelta}
    \cup (IF key \in {"premio_pol", "imposto", "contribuicao_agroindustria",
                      "icms_percentual"}
          THEN {Dec(42, 3), Dec(5, 1), One, Dec(101, 2), Num(50), Hundred, Num(150)}
          ELSE {})
    \cup (IF key \in {"premio_fisico_exportacao", "premio_fisico_exportacao_malha30"}
          THEN {Num(40), Num(50)} \cup {MatchedPremio(c) : c \in {Dec(535, 2), Dec(5, 1)}}
          ELSE {})
    \cup (IF key = "preco_hidratado_fob_usd"
          THEN {base["preco_anidro_fob_usd"]}
          ELSE {})

\* the exchange rates: valid ones, the default (key absent), zero, negative,
\* None and a non-numeric object
Cambios == {Dec(535, 2), Dec(5, 1), Absent, Zero, Num(-1), None, Text}

\* mapping d with key k given value v, or without key k
With(d, k, v) ==
    IF v = Absent
    THEN [x \in (DOMAIN d) \ {k} |-> d[x]]
    ELSE [x \in (DOMAIN d) \cup {k} |-> IF x = k THEN v ELSE d[x]]

\* the base Parameter Set with the gross price of the hydrated ethanol that
\* of the anhydrous ethanol and no ICMS
SameGrossNoIcms ==
    With(With(BaseInputs, "preco_hidratado_com_impostos_brl",
              BaseInputs["preco_anidro_com_impostos_brl"]),
         "icms_percentual", Zero)

\* the keys of the freights and of the terminal cost of the sugar
LogisticsKeys == {"frete_brl_ton", "frete_santos_usina_brl_ton", "custo_terminal_usd_ton"}

\* mapping d with no freight and no terminal cost
NoLogistics(d) == [k \in DOMAIN d |-> IF k \in LogisticsKeys THEN Zero ELSE d[k]]

\* the record of a calculator not called yet
NoResult == Record(EmptyDict, << >>)

\* the calculators called by another caller than the script
NoDashboard ==
    /\ config_file = [exists |-> FALSE, json |-> None]
    /\ saved_config = EmptyDict
    /\ session_state = EmptyDict
    /\ current_values = EmptyDict
    /\ arguments = EmptyDict
    /\ display = EmptyDict
    /\ stage = "called"
    /\ saved = FALSE

Init ==
    /\ pc = 0
    /\ results = [c \in CalcNames |-> NoResult]
    /\ NoDashboard
    /\ \E c \in Cambios :
          \/ /\ inputs \in {BaseInputs, SameGrossNoIcms}
             /\ globais = With(BaseGlobais, "cambio_brl_usd", c)
          \/ /\ inputs = NoLogistics(BaseInputs)
             /\ globais = With(NoLogistics(BaseGlobais), "cambio_brl_usd", c)
          \/ \E k \in DOMAIN BaseInputs : \E v \in Alternatives(BaseInputs, k) :
                /\ inputs = With(BaseInputs, k, v)
                /\ globais = With(BaseGlobais, "cambio_brl_usd", c)
          \/ \E k \in (DOMAIN BaseGlobais) \ {"cambio_brl_usd"} :
             \E v \in Alternatives(BaseGlobais, k) :
                /\ inputs = BaseInputs
                /\ globais = With(With(BaseGlobais, k, v), "cambio_brl_usd", c)

\* the try block of each calculator
TryBlocks ==
    [calc_acucar_vhp_detalhado |-> calc_acucar_vhp_detalhado_try,
     calc_acucar_cristal_esalq |-> calc_acucar_cristal_esalq_try,
     calc_paridade_comercializacao_mi_ny |-> calc_paridade_comercializacao_mi_ny_try,
     calc_acucar_cristal_exportacao |-> calc_acucar_cristal_exportacao_try,
     calc_acucar_cristal_exportacao_malha30 |-> calc_acucar_cristal_exportacao_malha30_try,
     calc_etanol_anidro_exportacao |-> calc_etanol_anidro_exportacao_try,
     calc_etanol_hidratado_exportacao |-> calc_etanol_hidratado_exportacao_try,
     calc_etanol_anidro_mercado_interno |-> calc_etanol_anidro_mercado_interno_try,
     calc_etanol_hidratado_mercado_interno |-> calc_etanol_hidratado_mercado_interno_try]

\* the statements before the try statement of calculator c
PreOf(c) ==
    IF c = "calc_acucar_vhp_detalhado" THEN calc_acucar_vhp_detalhado_pre
    ELSE calc_pre

\* the local variables of calculator c at the end of its try block
LocalsOf(c) == Body(PreOf(c), TryBlocks[c], inputs, globais).env

\* the two mappings given to a calculator are, after the call, as its
\* statements left them: the parameters of the local variables env
ArgumentsAfter(env) ==
    /\ inputs' = env["inputs"].items
    /\ globais' = env["globais"].items

\* the call of the calculator at position i of the pass returns record
Returns(i, record) ==
    /\ results' = [results EXCEPT ![Calculators[i]] = record]
    /\ pc' = i
    /\ ArgumentsAfter(LocalsOf(Calculators[i]))
    /\ UNCHANGED dashboard

CallAcucarVhp ==
    /\ pc = 0
    /\ Returns(1, calc_acucar_vhp_detalhado(inputs, globais))

CallAcucarCristalEsalq ==
    /\ pc = 1
    /\ Returns(2, calc_acucar_cristal_esalq(inputs, globais))

CallParidadeMiNy ==
    /\ pc = 2
    /\ Returns(3, calc_paridade_comercializacao_mi_ny(inputs, globais))

CallAcucarCristalExportacao ==
    /\ pc = 3
    /\ Returns(4, calc_acucar_cristal_exportacao(inputs, globais))

CallAcucarCristalExportacaoMalha30 ==
    /\ pc = 4
    /\ Returns(5, calc_acucar_cristal_exportacao_malha30(inputs, globais))

CallEtanolAnidroExportacao ==
    /\ pc = 5
    /\ Returns(6, calc_etanol_anidro_exportacao(inputs, globais))

CallEtanolHidratadoExportacao ==
    /\ pc = 6
    /\ Returns(7, calc_etanol_hidratado_exportacao(inputs, globais))

CallEtanolAnidroMi ==
    /\ pc = 7
    /\ Returns(8, calc_etanol_anidro_mercado_interno(inputs, globais))

CallEtanolHidratadoMi ==
    /\ pc = 8
    /\ Returns(9, calc_etanol_hidratado_mercado_interno(inputs, globais))

Next ==
    \/ CallAcucarVhp
    \/ CallAcucarCristalEsalq
    \/ CallParidadeMiNy
    \/ CallAcucarCristalExportacao
    \/ CallAcucarCristalExportacaoMalha30
    \/ CallEtanolAnidroExportacao
    \/ CallEtanolHidratadoExportacao
    \/ CallEtanolAnidroMi
    \/ CallEtanolHidratadoMi

Spec == Init /\ [][Next]_vars

(***************************************************************************)
(* The calculators called in any order                                     *)
(*                                                                         *)
(* The calculators take nothing from each other, so a caller may call them *)
(* in another order than the pass does, and again.  Here pc counts the     *)
(* calculators that have returned a record.                                *)
(***************************************************************************)
\* the exchange rates of the Parameter Sets of the calls in any order
CambiosAnyOrder == {Dec(535, 2), Zero, Text}

InitAnyOrder ==
    /\ pc = 0
    /\ results = [c \in CalcNames |-> NoResult]
    /\ NoDashboard
    /\ inputs = BaseInputs
    /\ \E c \in CambiosAnyOrder : globais = With(BaseGlobais, "cambio_brl_usd", c)

\* calculator c returns the record of the try block that ended as out
ReturnsInAnyOrder(c, out) ==
    /\ results' = [results EXCEPT ![c] = AfterTry(out, ExceptMessages[c])]
    /\ pc' = Cardinality({x \in CalcNames : x = c \/ results[x] # NoResult})
    /\ ArgumentsAfter(out.env)
    /\ UNCHANGED dashboard

\* a call of calculator c, called before or not
CallInAnyOrder(c) ==
    /\ pc <= Len(Calculators)
    /\ ReturnsInAnyOrder(c, Body(PreOf(c), TryBlocks[c], inputs, globais))

NextAnyOrder == \E c \in CalcNames : CallInAnyOrder(c)

SpecAnyOrder == InitAnyOrder /\ [][NextAnyOrder]_vars

(***************************************************************************)
(* The script around the calculators: the persisted configuration          *)
(*                                                                         *)
(* The file is there or not, and holds a JSON value or a text json.load    *)
(* cannot read (json is then Exc).  A JSON array is a list, a JSON string  *)
(* used as a key the text of a PyStr.                                      *)
(***************************************************************************)
File(exists, json) == [exists |-> exists, json |-> json]

\* lines 81-108
default_values ==
    [cambio_brl_usd |-> Dec(535, 2),
     acucar_ny_cents_lb |-> Dec(158, 1),
     premio_desconto_vhp |-> Dec(-1, 1),
     premio_pol_vhp |-> Dec(42, 1),
     custo_terminal_vhp_usd_ton |-> Dec(125, 1),
     frete_vhp_brl_ton |-> Num(202),
     preco_esalq_brl_saca |-> Dec(11567, 2),
     imposto_esalq |-> Dec(985, 2),
     frete_santos_usina_brl_ton |-> Num(202),
     custo_fobizacao_container_brl_ton |-> Num(198),
     custo_vhp_para_cristal |-> Dec(925, 2),
     premio_fisico_mi |-> Zero,
     premio_fisico_exportacao |-> Zero,
     premio_fisico_exportacao_malha30 |-> Zero,
     preco_anidro_fob_usd |-> Zero,
     frete_etanol_porto_usina |-> Zero,
     custo_terminal_etanol |-> Zero,
     custo_supervisao_documentos |-> Zero,
     custos_adicionais_demurrage |-> Zero,
     preco_hidratado_fob_usd |-> Zero,
     preco_anidro_com_impostos_brl |-> Zero,
     pis_cofins_brl |-> Zero,
     contribuicao_agroindustria |-> Zero,
     valor_cbio_bruto |-> Zero,
     preco_hidratado_com_impostos_brl |-> Zero,
     icms_percentual |-> Zero]

\* the 26 keys of the parameters
ParameterKeys == DOMAIN default_values

\* how a with statement ended and the mapping default_values then
Updated(raised, d) == [raised |-> raised, d |-> d]

\* an element of a sequence given to dict.update: a pair whose first member
\* is a string
IsPair(e) == e.t = "list" /\ Len(e.items) = 2 /\ e.items[1].t = "str"

\* d.update(seq[i..]): a pair after the other, until an element that is not
\* a pair raises; the pairs before it are in d then
RECURSIVE UpdateFrom(_, _, _)
UpdateFrom(d, seq, i) ==
    IF i > Len(seq) THEN Updated(FALSE, d)
    ELSE IF IsPair(seq[i])
         THEN UpdateFrom(Put(d, seq[i].items[1].s, seq[i].items[2]), seq, i + 1)
         ELSE Updated(TRUE, d)

\* faulty variant of d.update(other): the keys d holds keep their value
DictSetDefaults(d, other) ==
    CASE other.t = "dict" ->
            Updated(FALSE, [k \in (DOMAIN d) \cup (DOMAIN other.items) |->
                               IF k \in DOMAIN d THEN d[k] ELSE other.items[k]])
      [] other.t = "list" -> UpdateFrom(d, other.items, 1)
      [] OTHER -> Updated(TRUE, d)

\* d.update(other): other is a mapping, or a sequence of pairs; TypeError for
\* a number, a boolean or None
DictUpdate(d, other) ==
    CASE other.t = "dict" ->
            Updated(FALSE, [k \in (DOMAIN d) \cup (DOMAIN other.items) |->
                               IF k \in DOMAIN other.items THEN other.items[k] ELSE d[k]])
      [] other.t = "list" -> UpdateFrom(d, other.items, 1)
      [] OTHER -> Updated(TRUE, d)

\* lines 112-116: the with statement; open or json.load raise for a file
\* that cannot be read
WithOpen(file) ==
    IF IsExc(file.json) THEN Updated(TRUE, default_values)
    ELSE DictUpdate(default_values, file.json)

\* faulty variant of the except clause: the exception is raised again
ExceptRaise(d) == Exc

\* lines 117-120: except Exception, st.warning, and return default_values
ExceptWarning(d) == d

\* lines 74-120
load_sidebar_config(file) ==
    IF file.exists
    THEN IF WithOpen(file).raised
         THEN ExceptWarning(WithOpen(file).d)
         ELSE WithOpen(file).d
    ELSE default_values

\* the file after json.dump of values with no exception
Dumped(values) == File(TRUE, PyDict(values))

\* lines 122-133: the file after save_sidebar_config(values): written, or
\* left as it was when open raised, or cut short when json.dump raised; the
\* exception is caught
save_sidebar_config(file, values) ==
    {Dumped(values), file, File(TRUE, Exc)}

(***************************************************************************)
(* The script around the calculators: a run                                *)
(*                                                                         *)
(* Streamlit runs the script from its first line to its last for a new     *)
(* session and again after every interaction of the user.  stage is "idle" *)
(* between two runs, "loaded" after line 1076, "calculos" from the end of  *)
(* the sidebar (line 1362) to the last call, and "stopped" when            *)
(* st.number_input raised.                                                 *)
(***************************************************************************)
\* the configuration files a session may find: none, one that cannot be
\* parsed, objects with no key, some keys, every key, a key that is not a
\* parameter, a null, a string; a number; an array of a pair and a number
InitialFiles ==
    {File(FALSE, None),
     File(TRUE, Exc),
     File(TRUE, PyDict(EmptyDict)),
     File(TRUE, PyDict([frete_vhp_brl_ton |-> Num(150),
                        custo_terminal_vhp_usd_ton |-> Num(10),
                        preco_anidro_com_impostos_brl |-> Num(3200),
                        pis_cofins_brl |-> Dec(1922, 1),
                        valor_cbio_bruto |-> Num(100),
                        preco_hidratado_com_impostos_brl |-> Num(2900),
                        icms_percentual |-> Num(12)])),
     File(TRUE, PyDict([k \in ParameterKeys |->
                           IF IsNum(default_values[k]) /\ RIsZero(default_values[k])
                           THEN Num(700)
                           ELSE default_values[k]])),
     File(TRUE, PyDict([outro |-> One])),
     File(TRUE, PyDict([acucar_ny_cents_lb |-> None])),
     File(TRUE, PyDict([cambio_brl_usd |-> Text])),
     File(TRUE, Num(5)),
     File(TRUE, PyList(<<PyList(<<PyStr("cambio_brl_usd"), Num(5)>>), Num(7)>>))}

\* the values the user may give to a widget
Edits == [cambio_brl_usd |-> {Zero, Num(5)}]

\* st.number_input(value=...) takes a number; for None it raises or shows an
\* empty widget and returns None, as the version of Streamlit has it
NumberInputTakes(value) == IsNum(value) \/ value = None

NumberInputRaisesFor(value) == ~IsNum(value)

\* lines 1369-1375
inputs_acucar_vhp(cv) ==
    [acucar_ny_cents_lb |-> cv["acucar_ny_cents_lb"],
     premio_desconto |-> cv["premio_desconto_vhp"],
     premio_pol |-> cv["premio_pol_vhp"],
     custo_terminal_usd_ton |-> cv["custo_terminal_vhp_usd_ton"],
     frete_brl_ton |-> cv["frete_vhp_brl_ton"]]

\* faulty variant of lines 1377-1384: the freight from Santos to the mill as
\* the freight
globais_frete_santos(cv) ==
    [cambio_brl_usd |-> cv["cambio_brl_usd"],
     custo_terminal_usd_ton |-> cv["custo_terminal_vhp_usd_ton"],
     frete_santos_usina_brl_ton |-> cv["frete_santos_usina_brl_ton"],
     frete_brl_ton |-> cv["frete_santos_usina_brl_ton"],
     custo_fobizacao_container_brl_ton |-> cv["custo_fobizacao_container_brl_ton"],
     custo_vhp_para_cristal |-> cv["custo_vhp_para_cristal"]]

\* lines 1377-1384: globais = {...}
globais_dict(cv) ==
    [cambio_brl_usd |-> cv["cambio_brl_usd"],
     custo_terminal_usd_ton |-> cv["custo_terminal_vhp_usd_ton"],
     frete_santos_usina_brl_ton |-> cv["frete_santos_usina_brl_ton"],
     frete_brl_ton |-> cv["frete_vhp_brl_ton"],
     custo_fobizacao_container_brl_ton |-> cv["custo_fobizacao_container_brl_ton"],
     custo_vhp_para_cristal |-> cv["custo_vhp_para_cristal"]]

\* lines 1462-1464: globais_mi, from the mapping gl that globais is then
globais_mi(gl, cv) ==
    Put(Put(gl, "premio_fisico_mi", cv["premio_fisico_mi"]),
        "custo_fobizacao_container_brl_ton", cv["custo_fobizacao_container_brl_ton"])

\* lines 1390-1396
inputs_acucar_cristal_esalq(cv) ==
    [preco_esalq_brl_saca |-> cv["preco_esalq_brl_saca"],
     imposto |-> cv["imposto_esalq"],
     frete_santos_usina_brl_ton |-> cv["frete_santos_usina_brl_ton"],
     custo_fobizacao_container_brl_ton |-> cv["custo_fobizacao_container_brl_ton"],
     custo_vhp_para_cristal |-> cv["custo_vhp_para_cristal"]]

\* lines 1402-1405
inputs_paridade_mi_ny(cv) ==
    [acucar_ny_cents_lb |-> cv["acucar_ny_cents_lb"],
     premio_fisico_mi |-> cv["premio_fisico_mi"]]

\* lines 1411-1414
inputs_acucar_cristal_exportacao(cv) ==
    [acucar_ny_cents_lb |-> cv["acucar_ny_cents_lb"],
     premio_fisico_exportacao |-> cv["premio_fisico_exportacao"]]

\* lines 1420-1423
inputs_acucar_cristal_exportacao_malha30(cv) ==
    [acucar_ny_cents_lb |-> cv["acucar_ny_cents_lb"],
     premio_fisico_exportacao_malha30 |-> cv["premio_fisico_exportacao_malha30"]]

\* lines 1429-1435
inputs_etanol_anidro_exportacao(cv) ==
    [preco_anidro_fob_usd |-> cv["preco_anidro_fob_usd"],
     frete_etanol_porto_usina |-> cv["frete_etanol_porto_usina"],
     custo_terminal_etanol |-> cv["custo_terminal_etanol"],
     custo_supervisao_documentos |-> cv["custo_supervisao_documentos"],
     custos_adicionais_demurrage |-> cv["custos_adicionais_demurrage"]]

\* lines 1442-1448
inputs_etanol_hidratado_exportacao(cv) ==
    [preco_hidratado_fob_usd |-> cv["preco_hidratado_fob_usd"],
     frete_etanol_porto_usina |-> cv["frete_etanol_porto_usina"],
     custo_terminal_etanol |-> cv["custo_terminal_etanol"],
     custo_supervisao_documentos |-> cv["custo_supervisao_documentos"],
     custos_adicionais_demurrage |-> cv["custos_adicionais_demurrage"]]

\* lines 1454-1459
inputs_etanol_anidro_mi(cv) ==
    [preco_anidro_com_impostos_brl |-> cv["preco_anidro_com_impostos_brl"],
     pis_cofins_brl |-> cv["pis_cofins_brl"],
     contribuicao_agroindustria |-> cv["contribuicao_agroindustria"],
     valor_cbio_bruto |-> cv["valor_cbio_bruto"]]

\* lines 1470-1476
inputs_etanol_hidratado_mi(cv) ==
    [preco_hidratado_com_impostos_brl |-> cv["preco_hidratado_com_impostos_brl"],
     pis_cofins_brl |-> cv["pis_cofins_brl"],
     icms_percentual |-> cv["icms_percentual"],
     contribuicao_agroindustria |-> cv["contribuicao_agroindustria"],
     valor_cbio_bruto |-> cv["valor_cbio_bruto"]]

\* the first argument of each call of the run
InputsInPass(cv) ==
    [calc_acucar_vhp_detalhado |-> inputs_acucar_vhp(cv),
     calc_acucar_cristal_esalq |-> inputs_acucar_cristal_esalq(cv),
     calc_paridade_comercializacao_mi_ny |-> inputs_paridade_mi_ny(cv),
     calc_acucar_cristal_exportacao |-> inputs_acucar_cristal_exportacao(cv),
     calc_acucar_cristal_exportacao_malha30 |->
        inputs_acucar_cristal_exportacao_malha30(cv),
     calc_etanol_anidro_exportacao |-> inputs_etanol_anidro_exportacao(cv),
     calc_etanol_hidratado_exportacao |-> inputs_etanol_hidratado_exportacao(cv),
     calc_etanol_anidro_mercado_interno |-> inputs_etanol_anidro_mi(cv),
     calc_etanol_hidratado_mercado_interno |-> inputs_etanol_hidratado_mi(cv)]

\* the second argument of call i of the run: the mapping globais, made before
\* the first call and as the calls before left it, and from the eighth call
\* on the mapping globais_mi
GlobaisInPass(i) ==
    IF i = 1 THEN globais_dict(current_values)
    ELSE IF i = 8 THEN globais_mi(globais, current_values)
    ELSE globais

\* nothing shown, no call made
NoDisplay ==
    [all_errors |-> << >>, dashboard_data |-> << >>, produtos_filtrados |-> {},
     vhp_saca_list |-> << >>, top_vhp |-> << >>, melhor |-> << >>]

\* the script starts: line 1076, saved_config = load_sidebar_config()
Loads ==
    /\ stage \in {"idle", "stopped"}
    /\ saved_config' = load_sidebar_config(config_file)
    /\ stage' = "loaded"
    /\ pc' = 0
    /\ results' = [c \in CalcNames |-> NoResult]
    /\ inputs' = EmptyDict
    /\ globais' = EmptyDict
    /\ arguments' = EmptyDict
    /\ display' = NoDisplay
    /\ saved' = FALSE
    /\ UNCHANGED config_file

\* the first run of the script in a new session: no session state, no
\* widget has a value yet
RunInNewSession ==
    /\ Loads
    /\ session_state' = EmptyDict
    /\ current_values' = EmptyDict

\* the run of the script after an interaction of the user
Rerun ==
    /\ Loads
    /\ current_values # EmptyDict
    /\ UNCHANGED <<session_state, current_values>>

\* a st.number_input of the sidebar raises for the value of saved_config:
\* the run stops there
NumberInputRaises ==
    /\ stage = "loaded"
    /\ \E k \in ParameterKeys : NumberInputRaisesFor(saved_config[k])
    /\ stage' = "stopped"
    /\ UNCHANGED <<inputs, globais, results, pc, config_file, saved_config,
                   session_state, current_values, arguments, display, saved>>

\* the values of the widgets in this run: those of saved_config in the first
\* run of a session, and afterwards those of the run before, one of them
\* changed by the user or none
WidgetValues ==
    IF current_values = EmptyDict
    THEN {[k \in ParameterKeys |-> saved_config[k]]}
    ELSE {current_values}
         \cup UNION {{[current_values EXCEPT ![k] = v] : v \in Edits[k]} : k \in DOMAIN Edits}

\* lines 1360-1362 with the values cv, the file left as file
SaveOnChange(cv, file) ==
    /\ config_file' = file
    /\ session_state' = [last_saved_values |-> cv]
    /\ saved' = TRUE



\* line 1360: 'last_saved_values' not in st.session_state or
\* st.session_state.last_saved_values != current_values
ValuesChanged(cv) ==
    \/ "last_saved_values" \notin DOMAIN session_state
    \/ session_state["last_saved_values"] # cv

\* lines 1078-1362: the widgets of the sidebar, current_values, and the save
\* when the values changed
Sidebar ==
    /\ stage = "loaded"
    /\ \A k \in ParameterKeys : NumberInputTakes(saved_config[k])
    /\ \E cv \in WidgetValues :
          /\ current_values' = cv
          /\ IF ValuesChanged(cv)
             THEN \E file \in save_sidebar_config(config_file, cv) : SaveOnChange(cv, file)
             ELSE UNCHANGED <<config_file, session_state, saved>>
    /\ stage' = "calculos"
    /\ UNCHANGED <<inputs, globais, results, pc, saved_config, arguments, display>>

\* call i of the run returns the record of the try block that ended as out,
\* called with the mappings in and gl
ReturnsInPass(i, in, gl, out) ==
    /\ results' = [results EXCEPT ![Calculators[i]] = AfterTry(out, ExceptMessages[Calculators[i]])]
    /\ arguments' = Put(arguments, Calculators[i], [inputs |-> in, globais |-> gl])
    /\ pc' = i
    /\ ArgumentsAfter(out.env)

\* lines 1369-1479: call i of the nine calls, with the mapping made for it
CallInPass(i) ==
    /\ stage = "calculos"
    /\ pc = i - 1
    /\ ReturnsInPass(i, InputsInPass(current_values)[Calculators[i]], GlobaisInPass(i),
                     Body(PreOf(Calculators[i]), TryBlocks[Calculators[i]],
                          InputsInPass(current_values)[Calculators[i]], GlobaisInPass(i)))
    /\ UNCHANGED <<config_file, saved_config, session_state, current_values,
                   display, stage, saved>>

\* lines 1488-1496: the errors of the nine records, one list after the other
RECURSIVE ErrorsFrom(_, _)
ErrorsFrom(res, i) ==
    IF i > Len(Calculators) THEN << >>
    ELSE res[Calculators[i]].errors \o ErrorsFrom(res, i + 1)

\* faulty variant of lines 1488-1496: the errors of the first record that
\* has some
FirstErrors(res) ==
    IF \E i \in 1..Len(Calculators) : res[Calculators[i]].errors # << >>
    THEN res[Calculators[CHOOSE i \in 1..Len(Calculators) :
                 /\ res[Calculators[i]].errors # << >>
                 /\ \A j \in 1..(i - 1) : res[Calculators[j]].errors = << >>]].errors
    ELSE << >>

all_errors(res) == ErrorsFrom(res, 1)

\* the 'Produto' of the row of each calculator, lines 1514-1634
Produto ==
    [calc_acucar_vhp_detalhado |-> "Açúcar VHP",
     calc_acucar_cristal_esalq |-> "Açúcar Cristal ESALQ",
     calc_paridade_comercializacao_mi_ny |-> "Açúcar Cristal MI",
     calc_acucar_cristal_exportacao |-> "Açúcar Cristal Exportação",
     calc_acucar_cristal_exportacao_malha30 |-> "Açúcar Cristal Exportação Malha 30",
     calc_etanol_anidro_exportacao |-> "Etanol Anidro Exportação",
     calc_etanol_hidratado_exportacao |-> "Etanol Hidratado Exportação",
     calc_etanol_anidro_mercado_interno |-> "Etanol Anidro MI",
     calc_etanol_hidratado_mercado_interno |-> "Etanol Hidratado MI"]

\* the row of a product: its 'Produto' and its 'VHP R$/saca PVU', which is
\* v.get('equivalente_vhp_reais_saca_pvu', 0); the other columns are not
\* modelled
Row(c, v) ==
    [Produto |-> Produto[c],
     vhp_reais_saca_pvu |-> DictGet(v, "equivalente_vhp_reais_saca_pvu", Zero)]



\* if result.get('values'): a mapping with an entry
RowWhenValues(record) == record.values # EmptyDict

\* lines 1508-1643: dashboard_data, a row for each record with values, in
\* the order of the calls
RECURSIVE DataFrom(_, _)
DataFrom(res, i) ==
    IF i > Len(Calculators) THEN << >>
    ELSE (IF RowWhenValues(res[Calculators[i]])
          THEN <<Row(Calculators[i], res[Calculators[i]].values)>>
          ELSE << >>) \o DataFrom(res, i + 1)

dashboard_data(res) == DataFrom(res, 1)

\* todos_produtos, line 1751
todos_produtos(data) == {data[i].Produto : i \in 1..Len(data)}

IsSelected(sel, d) == d.Produto \in sel

\* lines 1760-1764: the rows of the selected products, all the rows when no
\* product is selected
dashboard_data_filtrado(data, sel) ==
    IF sel # {} THEN SelectSeq(data, LAMBDA d : IsSelected(sel, d)) ELSE data

\* faulty variant of sorted(..., reverse=True): the list in ascending order
RECURSIVE InsertAscending(_, _, _)
InsertAscending(s, x, i) ==
    IF i > Len(s) THEN Append(s, x)
    ELSE IF RLt(x.vhp_reais_saca_pvu, s[i].vhp_reais_saca_pvu)
         THEN SubSeq(s, 1, i - 1) \o <<x>> \o SubSeq(s, i, Len(s))
         ELSE InsertAscending(s, x, i + 1)

\* x put in the list s, which is in descending order, after the entries
\* that are not smaller: the sort is stable
RECURSIVE InsertDescending(_, _, _)
InsertDescending(s, x, i) ==
    IF i > Len(s) THEN Append(s, x)
    ELSE IF RLt(s[i].vhp_reais_saca_pvu, x.vhp_reais_saca_pvu)
         THEN SubSeq(s, 1, i - 1) \o <<x>> \o SubSeq(s, i, Len(s))
         ELSE InsertDescending(s, x, i + 1)

\* sorted(vhp_saca_list, key=lambda x: x[1], reverse=True), lines 1772, 1818
\* and 1893
RECURSIVE SortedFrom(_, _, _)
SortedFrom(list, i, done) ==
    IF i > Len(list) THEN done
    ELSE SortedFrom(list, i + 1, InsertDescending(done, list[i], 1))

sorted_reverse(list) == SortedFrom(list, 1, << >>)

\* line 1767: the pairs of the rows whose 'VHP R$/saca PVU' is not None; a
\* row of dashboard_data never has None there
vhp_saca_list(filtrado) == filtrado



\* line 1773: vhp_saca_list_sorted[:3]
top_vhp(list) == SubSeq(list, 1, IF Len(list) < 3 THEN Len(list) ELSE 3)



\* line 1935: next((d for d in dashboard_data_filtrado
\*                  if d['VHP R$/saca PVU'] == max_valor), None)
PrimeiroComMaximo(filtrado, max_valor) ==
    IF \E i \in 1..Len(filtrado) : REq(filtrado[i].vhp_reais_saca_pvu, max_valor)
    THEN <<filtrado[CHOOSE i \in 1..Len(filtrado) :
              /\ REq(filtrado[i].vhp_reais_saca_pvu, max_valor)
              /\ \A j \in 1..(i - 1) : ~REq(filtrado[j].vhp_reais_saca_pvu, max_valor)]>>
    ELSE << >>

\* lines 1891-1937: the row announced as the best parity, none when the
\* ranking is empty or max_valor is zero
melhor(filtrado, ranking) ==
    IF ranking # << >> /\ ~RIsZero(ranking[1].vhp_reais_saca_pvu)
    THEN PrimeiroComMaximo(filtrado, ranking[1].vhp_reais_saca_pvu)
    ELSE << >>

\* what the script shows below the title for the records res and the
\* selection sel of the multiselect; line 1645: the filter and the rankings
\* only when dashboard_data has a row
Shown(errors, data, sel, ranking) ==
    [all_errors |-> errors,
     dashboard_data |-> data,
     produtos_filtrados |-> sel,
     vhp_saca_list |-> ranking,
     top_vhp |-> top_vhp(ranking),
     melhor |-> melhor(dashboard_data_filtrado(data, sel), ranking)]

\* the selections of the multiselect the model takes among the products
\* of the table: all of them, none, the sugars, the domestic ethanols
SelectionPatterns ==
    {{Produto[c] : c \in CalcNames}, {},
     {Produto[Calculators[i]] : i \in 1..5},
     {Produto[Calculators[i]] : i \in 8..9}}

Selections(data) == {S \cap todos_produtos(data) : S \in SelectionPatterns}

\* lines 1484-1937: the errors, the table, the filter and the rankings
Exibicao ==
    /\ stage = "calculos"
    /\ pc = Len(Calculators)
    /\ \E sel \in Selections(dashboard_data(results)) :
          display' = IF dashboard_data(results) = << >>
                     THEN [NoDisplay EXCEPT !.all_errors = all_errors(results)]
                     ELSE Shown(all_errors(results), dashboard_data(results), sel,
                                sorted_reverse(vhp_saca_list(
                                    dashboard_data_filtrado(dashboard_data(results), sel))))
    /\ stage' = "idle"
    /\ UNCHANGED <<inputs, globais, results, pc, config_file, saved_config,
                   session_state, current_values, arguments, saved>>

\* a session of the dashboard starts with one of the files on the disk
InitDashboard ==
    /\ config_file \in InitialFiles
    /\ saved_config = EmptyDict
    /\ session_state = EmptyDict
    /\ current_values = EmptyDict
    /\ arguments = EmptyDict
    /\ display = NoDisplay
    /\ stage = "idle"
    /\ saved = FALSE
    /\ inputs = EmptyDict
    /\ globais = EmptyDict
    /\ results = [c \in CalcNames |-> NoResult]
    /\ pc = 0

NextDashboard ==
    \/ RunInNewSession
    \/ Rerun
    \/ NumberInputRaises
    \/ Sidebar
    \/ \E i \in 1..Len(Calculators) : CallInPass(i)
    \/ Exibicao

SpecDashboard == InitDashboard /\ [][NextDashboard]_vars

(***************************************************************************)
(* What the calculators read                                               *)
(***************************************************************************)
\* the keys the statements prog read from the mapping named m: the
\* statements x = m.get(key, default)
KeysRead(prog, m) ==
    {prog[i].e.k : i \in {j \in 1..Len(prog) :
                            /\ prog[j].s = "asg"
                            /\ prog[j].e.e = "get"
                            /\ prog[j].e.m = Var(m)}}

\* calculator c reads a key that its mapping does not hold
ReadsMissing(c) ==
    \/ \E k \in KeysRead(TryBlocks[c], "inputs") : k \notin DOMAIN inputs
    \/ \E k \in KeysRead(TryBlocks[c], "globais") : k \notin DOMAIN globais

\* calculator c reads a key that its mapping holds with None or with a
\* non-numeric object
ReadsUnusable(c) ==
    \/ \E k \in KeysRead(TryBlocks[c], "inputs") :
          k \in DOMAIN inputs /\ ~IsNum(inputs[k])
    \/ \E k \in KeysRead(TryBlocks[c], "globais") :
          k \in DOMAIN globais /\ ~IsNum(globais[k])

\* globais.get('cambio_brl_usd', 1)
Cambio == DictGet(globais, "cambio_brl_usd", One)

CambioPositive == IsNum(Cambio) /\ RLt(Zero, Cambio)

CambioNotPositive == IsNum(Cambio) /\ RLe(Cambio, Zero)

\* every calculator has been called
Done == pc = Len(Calculators)

\* equality of two Python values, numbers being compared as numbers
RECURSIVE SameValue(_, _)
SameValue(a, b) ==
    IF a.t # b.t THEN FALSE
    ELSE CASE a.t = "num" -> REq(a, b)
           [] a.t = "dict" ->
                /\ DOMAIN a.items = DOMAIN b.items
                /\ \A k \in DOMAIN a.items : SameValue(a.items[k], b.items[k])
           [] OTHER -> a = b

\* equality of two values mappings
SameValues(v, w) ==
    /\ DOMAIN v = DOMAIN w
    /\ \A k \in DOMAIN v : SameValue(v[k], w[k])

\* mapping m holds the number v under key
Given(m, key, v) == key \in DOMAIN m /\ IsNum(m[key]) /\ REq(m[key], v)

\* x and y agree to the fourth decimal place
Approx(x, y) == RLe(RAbs(RSub(x, y)), Dec(5, 5))

(***************************************************************************)
(* Validation of the exchange rate                                         *)
(***************************************************************************)
\* C1: when globais['cambio_brl_usd'] is a number that is zero or negative,
\* every calculator called has returned the record whose errors are exactly
\* ["Câmbio deve ser maior que zero"] and whose values are the empty mapping,
\* whatever the other parameters are (numbers, None, non-numeric or missing).
C1_CambioNotPositive ==
    \A c \in CalcNames :
        (Called(c) /\ CambioNotPositive) =>
            results[c] = Record(EmptyDict, <<MsgCambio>>)

\* all nine calculators called with a zero or negative exchange rate and
\* another parameter that is None
C1_Witness ==
    /\ Done
    /\ CambioNotPositive
    /\ \E k \in DOMAIN inputs : inputs[k] = None
    /\ \A c \in CalcNames : results[c].errors = <<MsgCambio>>

(***************************************************************************)
(* Exceptions                                                              *)
(***************************************************************************)
\* C2: no calculator propagates an exception: whatever the two mappings hold
\* (values missing, None or non-numeric included) every calculator called
\* has returned a record of a values mapping and an errors list, and when a
\* parameter it reads is None or non-numeric, or when it produced no value,
\* the errors list holds a message.
C2_NoExceptionPropagates ==
    \A c \in CalcNames :
        Called(c) =>
            /\ DOMAIN results[c] = {"values", "errors"}
            /\ ReadsUnusable(c) => Len(results[c].errors) >= 1
            /\ results[c].values = EmptyDict => Len(results[c].errors) >= 1

\* a calculator given a non-numeric parameter and a valid exchange rate has
\* returned the message of its except clause
C2_Witness ==
    /\ Done
    /\ CambioPositive
    /\ \E c \in CalcNames :
          /\ ReadsUnusable(c)
          /\ results[c].errors = <<ExceptMessages[c]>>

\* C3 (as the code has it): a parameter missing from the Parameter Set is
\* not an error: it is read with a default (0, and 1 for the exchange rate),
\* so a calculator whose other parameters are numbers and whose exchange
\* rate is positive completes with no error and with values; what makes the
\* computation fail is a parameter that is present but None or non-numeric,
\* which gives the one message of the except clause and no value.
C3_MissingParameterIsDefaulted ==
    \A c \in CalcNames :
        Called(c) =>
            /\ (ReadsMissing(c) /\ ~ReadsUnusable(c) /\ CambioPositive) =>
                  /\ results[c].errors = << >>
                  /\ results[c].values # EmptyDict
            /\ (ReadsUnusable(c) /\ ~CambioNotPositive) =>
                  results[c] = Record(EmptyDict, <<ExceptMessages[c]>>)

\* C3 as stated: a calculator that reads a parameter missing from the
\* Parameter Set returns an error message for it.
C3_MissingParameterIsError ==
    \A c \in CalcNames :
        (Called(c) /\ ReadsMissing(c)) => Len(results[c].errors) >= 1

\* the VHP calculator called without the exchange price has completed with
\* no error
C3_Witness ==
    /\ Done
    /\ "acucar_ny_cents_lb" \notin DOMAIN inputs
    /\ CambioPositive
    /\ results["calc_acucar_vhp_detalhado"].errors = << >>
    /\ "sugar_ny_mais_pol_cents_lb" \in DOMAIN results["calc_acucar_vhp_detalhado"].values

(***************************************************************************)
(* The VHP sugar calculator                                                *)
(***************************************************************************)
\* C4: with a positive exchange rate and numeric parameters the VHP
\* calculator returns no error and its step 4 value
\* (equivalente_vhp_cents_lb_fob) is exactly its step 1 value
\* (sugar_ny_mais_pol_cents_lb), whatever the terminal cost, the freight and
\* the exchange rate are.
C4_FobIsStep1 ==
    (Called("calc_acucar_vhp_detalhado") /\ CambioPositive
        /\ ~ReadsUnusable("calc_acucar_vhp_detalhado")) =>
        /\ results["calc_acucar_vhp_detalhado"].errors = << >>
        /\ results["calc_acucar_vhp_detalhado"].values["equivalente_vhp_cents_lb_fob"]
             = results["calc_acucar_vhp_detalhado"].values["sugar_ny_mais_pol_cents_lb"]

\* the VHP calculator has returned a FOB value that differs from its ex-mill
\* value, for an exchange rate other than the base one
C4_Witness ==
    /\ Called("calc_acucar_vhp_detalhado")
    /\ CambioPositive
    /\ ~REq(Cambio, BaseGlobais["cambio_brl_usd"])
    /\ results["calc_acucar_vhp_detalhado"].errors = << >>
    /\ ~REq(results["calc_acucar_vhp_detalhado"].values["equivalente_vhp_cents_lb_fob"],
            results["calc_acucar_vhp_detalhado"].values["equivalente_vhp_cents_lb_pvu"])

\* inputs.get('premio_pol', 0)
PremioPol == DictGet(inputs, "premio_pol", Zero)

\* the record of the VHP calculator for the premium given as the decimal
\* fraction of the one of the state
VhpOfFraction ==
    calc_acucar_vhp_detalhado(With(inputs, "premio_pol", RDiv(PremioPol, Hundred)),
                              globais)

\* the VHP calculator returned the same record as for the decimal fraction
SameAsFraction ==
    /\ SameValues(results["calc_acucar_vhp_detalhado"].values, VhpOfFraction.values)
    /\ results["calc_acucar_vhp_detalhado"].errors = VhpOfFraction.errors

\* C5 (as the code has it): for a polarization premium p with 1 < p <= 100
\* the VHP calculator returns for p the values it returns for p / 100, all
\* other parameters being equal; outside that range it does not (p <= 1 is
\* taken as a fraction already, p / 100 > 1 is divided again).
C5_WholePercentInRange ==
    (pc = 1 /\ IsNum(PremioPol) /\ RLt(One, PremioPol) /\ RLe(PremioPol, Hundred)) =>
        SameAsFraction

\* C5 as stated: for every whole-number percentage p (1 and above) the
\* VHP calculator returns for p the values it returns for p / 100.
C5_AnyWholePercent ==
    (pc = 1 /\ IsNum(PremioPol) /\ RLe(One, PremioPol)) => SameAsFraction

\* the spec's case: the premium 4.2, with values returned
C5_Witness ==
    /\ pc = 1
    /\ Given(inputs, "premio_pol", Dec(42, 1))
    /\ results["calc_acucar_vhp_detalhado"].errors = << >>
    /\ SameAsFraction
    /\ Given(VhpOfFraction.values["desenvolvimento"].items["passo1"].items["valores"].items,
             "premio_pol_percentual", Dec(42, 3))

(***************************************************************************)
(* Normalization of the dual-representation fields                         *)
(***************************************************************************)
\* the rule: raw / 100 if raw > 1 else raw
Normalized(raw) == IF RLt(One, raw) THEN RDiv(raw, Hundred) ELSE raw

\* the dual-representation fields: the calculator, the key of the raw value
\* and the local variable of the normalized value
DualFields ==
    {<<"calc_acucar_vhp_detalhado", "premio_pol", "premio_pol_percentual">>,
     <<"calc_acucar_cristal_esalq", "imposto", "imposto_percentual">>,
     <<"calc_etanol_anidro_mercado_interno", "contribuicao_agroindustria",
       "contribuicao_percentual">>,
     <<"calc_etanol_hidratado_mercado_interno", "contribuicao_agroindustria",
       "contribuicao_percentual">>,
     <<"calc_etanol_hidratado_mercado_interno", "icms_percentual",
       "icms_percentual_val">>}

\* C6: in each of the five places (premio_pol in the VHP calculator, imposto
\* in the ESALQ one, contribuicao_agroindustria in the two ethanol domestic
\* ones, icms_percentual in the hydrated domestic one), the calculator being
\* given numbers and a positive exchange rate, a raw value strictly greater
\* than 1 is divided by 100 and any other, 1 included, is used as it is; a
\* raw value in [0, 100] is normalized into [0, 1].
C6_NormalizationRule ==
    \A f \in DualFields :
        (pc = Pos(f[1]) /\ CambioPositive /\ ~ReadsUnusable(f[1])) =>
            LET raw == DictGet(inputs, f[2], Zero)
                locals == LocalsOf(f[1])
            IN  /\ f[3] \in DOMAIN locals
                /\ REq(locals[f[3]], Normalized(raw))
                /\ (RLe(Zero, raw) /\ RLe(raw, Hundred)) =>
                      /\ RLe(Zero, locals[f[3]])
                      /\ RLe(locals[f[3]], One)

\* the ESALQ calculator called with the tax rate exactly 1, which it uses as
\* it is
C6_Witness ==
    /\ pc = 2
    /\ CambioPositive
    /\ Given(inputs, "imposto", One)
    /\ REq(LocalsOf("calc_acucar_cristal_esalq")["imposto_percentual"], One)
    /\ results["calc_acucar_cristal_esalq"].errors = << >>

(***************************************************************************)
(* Round trip of the Crystal values                                        *)
(***************************************************************************)
\* the calculators of Crystal values computed from a per-bag value by the
\* plain conversion, or the other way round
PlainCrystal ==
    {"calc_paridade_comercializacao_mi_ny", "calc_acucar_cristal_exportacao",
     "calc_acucar_cristal_exportacao_malha30", "calc_etanol_anidro_mercado_interno",
     "calc_etanol_hidratado_mercado_interno"}

\* perPound * 22.0462 / 20 * exchangeRate
PerBagFromPerPound(perPound, rate) ==
    RMul(RDiv(RMul(perPound, FATOR_CONVERSAO_CENTS_LB_PARA_TON), Num(SACAS_POR_TON)),
         rate)

\* the per-bag value recomputed from the per-pound value of calculator c,
\* minus the per-bag value it reports
RoundTripGap(c) ==
    RSub(PerBagFromPerPound(results[c].values["equivalente_cristal_cents_lb_pvu"],
                            Cambio),
         results[c].values["equivalente_cristal_reais_saca_pvu"])

\* C7 (as the code has it): in the domestic-parity, export, export-malha30
\* and the two ethanol domestic calculators the per-bag Crystal ex-mill value
\* recomputed from the per-pound one (perPound * 22.0462 / 20 * rate) is the
\* reported per-bag value within 1e-9; in the ESALQ calculator, whose
\* per-pound value carries the fixed adjustment of 15 per ton, it is the
\* reported per-bag value less 15 / 20 = 0.75.
C7_RoundTrip ==
    /\ \A c \in PlainCrystal :
          (Called(c) /\ results[c].errors = << >>) =>
              RLe(RAbs(RoundTripGap(c)), Dec(1, 9))
    /\ (Called("calc_acucar_cristal_esalq")
          /\ results["calc_acucar_cristal_esalq"].errors = << >>) =>
              REq(RoundTripGap("calc_acucar_cristal_esalq"), Dec(-75, 2))

\* C7 as stated: the round trip returns the reported per-bag value within
\* 1e-9 in the six calculators, the ESALQ one included.
C7_RoundTripEverywhere ==
    \A c \in PlainCrystal \cup {"calc_acucar_cristal_esalq"} :
        (Called(c) /\ results[c].errors = << >>) =>
            RLe(RAbs(RoundTripGap(c)), Dec(1, 9))

\* the six calculators have returned values for an exchange rate other than
\* the base one
C7_Witness ==
    /\ Done
    /\ CambioPositive
    /\ ~REq(Cambio, BaseGlobais["cambio_brl_usd"])
    /\ \A c \in PlainCrystal \cup {"calc_acucar_cristal_esalq"} :
          /\ results[c].errors = << >>
          /\ ~RIsZero(results[c].values["equivalente_cristal_cents_lb_pvu"])

(***************************************************************************)
(* Scenario A                                                              *)
(***************************************************************************)
\* exchange price 15.8, premium/discount -0.1, polarization premium 4.2,
\* terminal cost 12.5, freight 202.0 and exchange rate 5.35
ScenarioA ==
    /\ Given(inputs, "acucar_ny_cents_lb", Dec(158, 1))
    /\ Given(inputs, "premio_desconto", Dec(-1, 1))
    /\ Given(inputs, "premio_pol", Dec(42, 1))
    /\ Given(inputs, "custo_terminal_usd_ton", Dec(125, 1))
    /\ Given(inputs, "frete_brl_ton", Num(202))
    /\ Given(globais, "cambio_brl_usd", Dec(535, 2))

\* C8 (as the code has it): in Scenario A the VHP calculator returns no
\* error and a step 1 value of (15.8 - 0.1) * 1.042 = 16.3594 cents/lb.
C8_ScenarioA ==
    (Called("calc_acucar_vhp_detalhado") /\ ScenarioA) =>
        /\ results["calc_acucar_vhp_detalhado"].errors = << >>
        /\ Approx(results["calc_acucar_vhp_detalhado"].values["sugar_ny_mais_pol_cents_lb"], Dec(163594, 4))

\* C8 as stated: in Scenario A the step 1 value is approximately 16.3834.
C8_ScenarioA_16_3834 ==
    (Called("calc_acucar_vhp_detalhado") /\ ScenarioA) =>
        /\ results["calc_acucar_vhp_detalhado"].errors = << >>
        /\ Approx(results["calc_acucar_vhp_detalhado"].values["sugar_ny_mais_pol_cents_lb"], Dec(163834, 4))

\* the VHP calculator called in Scenario A
C8_Witness ==
    /\ Called("calc_acucar_vhp_detalhado")
    /\ ScenarioA
    /\ REq(results["calc_acucar_vhp_detalhado"].values["sugar_ny_mais_pol_cents_lb"],
           RMul(RSub(Dec(158, 1), Dec(1, 1)), Dec(1042, 3)))

(***************************************************************************)
(* CBIO net of tax                                                         *)
(***************************************************************************)
\* inputs.get('valor_cbio_bruto', 0)
ValorCbioBruto == DictGet(inputs, "valor_cbio_bruto", Zero)

\* grossCBIO * 0.7575 * 0.6
CbioNetOfTax == RMul(RMul(ValorCbioBruto, Dec(7575, 4)), Dec(6, 1))

\* C9 (as the code has it): the record of the anhydrous domestic calculator
\* carries cbio_liquido_impostos = grossCBIO * 0.7575 * 0.6, whatever the
\* other parameters are; the record of the hydrated domestic calculator
\* carries no CBIO net-of-tax value: the value enters only its
\* preco_liquido_pvu_mais_cbio, as (grossCBIO * 0.7575 * 0.6 / 749.75) * 1000
\* added to preco_liquido_pvu.
C9_CbioNetOfTax ==
    /\ (Called("calc_etanol_anidro_mercado_interno") /\ results["calc_etanol_anidro_mercado_interno"].errors = << >>) =>
          /\ "cbio_liquido_impostos" \in DOMAIN results["calc_etanol_anidro_mercado_interno"].values
          /\ REq(results["calc_etanol_anidro_mercado_interno"].values["cbio_liquido_impostos"], CbioNetOfTax)
    /\ (Called("calc_etanol_hidratado_mercado_interno")
          /\ results["calc_etanol_hidratado_mercado_interno"].errors = << >>) =>
          /\ "cbio_liquido_impostos" \notin DOMAIN results["calc_etanol_hidratado_mercado_interno"].values
          /\ REq(RSub(results["calc_etanol_hidratado_mercado_interno"].values["preco_liquido_pvu_mais_cbio"],
                      results["calc_etanol_hidratado_mercado_interno"].values["preco_liquido_pvu"]),
                 RMul(RDiv(CbioNetOfTax, FATOR_CBIO_FC_HIDRATADO), Num(1000)))

\* C9 as stated: the records of both ethanol domestic calculators carry the
\* CBIO net-of-tax value grossCBIO * 0.7575 * 0.6.
C9_CbioInBothRecords ==
    \A c \in {"calc_etanol_anidro_mercado_interno",
              "calc_etanol_hidratado_mercado_interno"} :
        (Called(c) /\ results[c].errors = << >>) =>
            /\ "cbio_liquido_impostos" \in DOMAIN results[c].values
            /\ REq(results[c].values["cbio_liquido_impostos"], CbioNetOfTax)

\* both calculators called with grossCBIO = 100 and another parameter changed:
\* the anhydrous record carries 45.45
C9_Witness ==
    /\ Done
    /\ Given(inputs, "valor_cbio_bruto", Hundred)
    /\ inputs # BaseInputs
    /\ results["calc_etanol_hidratado_mercado_interno"].errors = << >>
    /\ results["calc_etanol_anidro_mercado_interno"].errors = << >>
    /\ REq(results["calc_etanol_anidro_mercado_interno"].values["cbio_liquido_impostos"], Dec(4545, 2))

(***************************************************************************)
(* The two export Crystal calculators                                      *)
(***************************************************************************)
\* the premium given to the export calculator is the one given to the
\* export-malha30 calculator
SamePremio ==
    SameValue(DictGet(inputs, "premio_fisico_exportacao", Zero),
              DictGet(inputs, "premio_fisico_exportacao_malha30", Zero))

\* C10: when premio_fisico_exportacao equals premio_fisico_exportacao_malha30
\* the export and the export-malha30 Crystal calculators return equal values
\* under every key and as many errors, whatever the exchange price and the
\* globals are.
C10_ExportacaoMalha30 ==
    (Called("calc_acucar_cristal_exportacao_malha30") /\ SamePremio) =>
        /\ SameValues(results["calc_acucar_cristal_exportacao"].values, results["calc_acucar_cristal_exportacao_malha30"].values)
        /\ Len(results["calc_acucar_cristal_exportacao"].errors) = Len(results["calc_acucar_cristal_exportacao_malha30"].errors)

\* both calculators have returned values for the same premium
C10_Witness ==
    /\ Called("calc_acucar_cristal_exportacao_malha30")
    /\ SamePremio
    /\ results["calc_acucar_cristal_exportacao_malha30"].errors = << >>
    /\ "equivalente_cristal_cents_lb_fob" \in DOMAIN results["calc_acucar_cristal_exportacao_malha30"].values
    /\ SameValues(results["calc_acucar_cristal_exportacao"].values, results["calc_acucar_cristal_exportacao_malha30"].values)

(***************************************************************************)
(* The domestic-parity and the export Crystal calculators                  *)
(***************************************************************************)
\* the two export Crystal calculators
ExportCrystal ==
    {"calc_acucar_cristal_exportacao", "calc_acucar_cristal_exportacao_malha30"}

\* the domestic-parity calculator and export calculator e have both returned
\* values, and the same Crystal ex-mill per-bag value
SamePerBag(e) ==
    /\ Called(e)
    /\ results["calc_paridade_comercializacao_mi_ny"].errors = << >>
    /\ results[e].errors = << >>
    /\ REq(results["calc_paridade_comercializacao_mi_ny"].values["equivalente_cristal_reais_saca_pvu"],
           results[e].values["equivalente_cristal_reais_saca_pvu"])

\* the value of the domestic-parity calculator under key minus the one of
\* export calculator e
MiLessExport(e, key) ==
    RSub(results["calc_paridade_comercializacao_mi_ny"].values[key],
         results[e].values[key])

\* (frete_santos_usina_brl_ton - frete_brl_ton) / 22.0462 / cambio_brl_usd:
\* the freight of lines 444 and 451 less the freight of lines 521 and 531
FreightGap ==
    RDiv(RDiv(RSub(DictGet(globais, "frete_santos_usina_brl_ton", Zero),
                   DictGet(globais, "frete_brl_ton", Zero)),
              FATOR_CONVERSAO_CENTS_LB_PARA_TON),
         Cambio)

\* C11 (as the code has it): the domestic-parity calculator and an export
\* Crystal calculator given the same globals and premiums for which their
\* Crystal ex-mill per-bag values coincide return equal VHP per-bag, VHP
\* per-pound ex-mill and Crystal per-pound ex-mill values; their VHP
\* per-pound FOB and Crystal per-pound FOB values differ by
\* (Santos-mill freight - port-mill freight) / 22.0462 / rate, the domestic
\* calculator adding the Santos-mill freight where the export ones use the
\* port-mill freight, and so are equal only when the two freights are.
C11_DomesticAndExport ==
    \A e \in ExportCrystal :
        SamePerBag(e) =>
            /\ \A key \in {"equivalente_vhp_reais_saca_pvu",
                           "equivalente_vhp_cents_lb_pvu",
                           "equivalente_cristal_cents_lb_pvu"} :
                  RIsZero(MiLessExport(e, key))
            /\ \A key \in {"equivalente_vhp_cents_lb_fob",
                           "equivalente_cristal_cents_lb_fob"} :
                  REq(MiLessExport(e, key), FreightGap)

\* C11 as stated: when the Crystal ex-mill per-bag values coincide the five
\* values derived from it are equal between the domestic-parity and the
\* export calculators.
C11_FiveValuesEqual ==
    \A e \in ExportCrystal :
        SamePerBag(e) =>
            \A key \in {"equivalente_vhp_reais_saca_pvu",
                        "equivalente_vhp_cents_lb_pvu",
                        "equivalente_vhp_cents_lb_fob",
                        "equivalente_cristal_cents_lb_pvu",
                        "equivalente_cristal_cents_lb_fob"} :
                RIsZero(MiLessExport(e, key))

\* the export calculator given the matched premium has returned the per-bag
\* value of the domestic-parity calculator, the premiums being different and
\* the conversion cost not zero
C11_Witness ==
    /\ SamePerBag("calc_acucar_cristal_exportacao")
    /\ ~SameValue(DictGet(inputs, "premio_fisico_exportacao", Zero),
                  DictGet(inputs, "premio_fisico_mi", Zero))
    /\ ~RIsZero(results["calc_acucar_cristal_exportacao"].values["equivalente_cristal_reais_saca_pvu"])
    /\ ~REq(results["calc_acucar_cristal_exportacao"].values["equivalente_vhp_reais_saca_pvu"],
            results["calc_acucar_cristal_exportacao"].values["equivalente_cristal_reais_saca_pvu"])

(***************************************************************************)
(* Frame of a calculator call                                              *)
(***************************************************************************)
\* the containers calculator c creates before its try statement (errors,
\* values, and desenvolvimento in the VHP calculator), empty
Created(c) == Run(PreOf(c), << >>).env

\* the statements of the try block of calculator c that store into a
\* mapping store into one the call created, and what the block reads with
\* get it reads from its two parameters
WritesOwnContainers(c) ==
    \A i \in 1..Len(TryBlocks[c]) :
        /\ TryBlocks[c][i].s = "setitem" => TryBlocks[c][i].d \in DOMAIN Created(c)
        /\ (TryBlocks[c][i].s = "asg" /\ TryBlocks[c][i].e.e = "get") =>
              TryBlocks[c][i].e.m \in {Var("inputs"), Var("globais")}

\* C12: every calculator call leaves the two mappings it is given as they
\* were, changes no record but the one it returns, and builds that record
\* from containers it created empty itself (errors = [], values = {}): its
\* statements store into those containers only and read, besides their
\* local variables and the module's constants, only the two mappings.
C12_CallFrame ==
    [][/\ inputs' = inputs
       /\ globais' = globais
       /\ \A c \in CalcNames : results'[c] # results[c] => Pos(c) = pc'
       /\ WritesOwnContainers(Calculators[pc'])
       /\ \A x \in DOMAIN Created(Calculators[pc']) :
             Created(Calculators[pc'])[x].items = << >>]_vars

\* the nine calculators have returned values for the base Parameter Set,
\* which is as it was
C12_Witness ==
    /\ Done
    /\ inputs = BaseInputs
    /\ globais = BaseGlobais
    /\ \A c \in CalcNames : results[c].errors = << >> /\ results[c].values # EmptyDict

(***************************************************************************)
(* Order of the calls                                                      *)
(***************************************************************************)
\* the records of the calculators Calculators[i], ... called in the order of
\* the pass with the mappings in and gl, each call being given the mappings
\* as the call before left them
RECURSIVE PassFrom(_, _, _)
PassRest(i, out) ==
    <<AfterTry(out, ExceptMessages[Calculators[i]])>>
        \o PassFrom(i + 1, out.env["inputs"].items, out.env["globais"].items)

PassFrom(i, in, gl) ==
    IF i > Len(Calculators) THEN << >>
    ELSE PassRest(i, Body(PreOf(Calculators[i]), TryBlocks[Calculators[i]], in, gl))

\* the records of the pass for the mappings of the state
InProgramOrder == PassFrom(1, inputs, globais)

VhpReturned ==
    /\ Called("calc_acucar_vhp_detalhado")
    /\ CambioPositive
    /\ results["calc_acucar_vhp_detalhado"].errors = << >>

\* the terminal cost and the freight the VHP calculator reads
VhpCustoTerminal == DictGet(inputs, "custo_terminal_usd_ton", Zero)

VhpFrete == DictGet(inputs, "frete_brl_ton", Zero)

\* C14: for a positive exchange rate and numeric parameters the VHP
\* calculator returns no error and a per-bag ex-mill value of
\* ((priceWithPol * 22.0462 - terminalCost - freight / rate) / 20) * rate,
\* priceWithPol being its step 1 value.
C14_VhpStep2 ==
    (Called("calc_acucar_vhp_detalhado") /\ CambioPositive
        /\ ~ReadsUnusable("calc_acucar_vhp_detalhado")) =>
        /\ results["calc_acucar_vhp_detalhado"].errors = << >>
        /\ REq(results["calc_acucar_vhp_detalhado"].values["equivalente_vhp_reais_saca_pvu"],
               RMul(RDiv(RSub(RSub(RMul(results["calc_acucar_vhp_detalhado"].values["sugar_ny_mais_pol_cents_lb"],
                                        Dec(220462, 4)),
                                   VhpCustoTerminal),
                              RDiv(VhpFrete, Cambio)),
                         Num(20)),
                    Cambio))

\* the VHP calculator has returned a per-bag value for an exchange rate other
\* than 1, a terminal cost and a freight that are not zero
C14_Witness ==
    /\ VhpReturned
    /\ ~REq(Cambio, One)
    /\ ~RIsZero(VhpCustoTerminal)
    /\ ~RIsZero(VhpFrete)
    /\ RLt(Zero, results["calc_acucar_vhp_detalhado"].values["equivalente_vhp_reais_saca_pvu"])

\* C15: for a positive exchange rate the VHP calculator's per-pound ex-mill
\* value is (pvuPerBag * 20 / 22.0462) / rate, pvuPerBag being its step 2
\* value, and its step 1 (FOB) value less that per-pound ex-mill value is
\* (terminalCost + freight / rate) / 22.0462.
C15_VhpStep3 ==
    VhpReturned =>
        /\ REq(results["calc_acucar_vhp_detalhado"].values["equivalente_vhp_cents_lb_pvu"],
               RDiv(RDiv(RMul(results["calc_acucar_vhp_detalhado"].values["equivalente_vhp_reais_saca_pvu"],
                              Num(20)),
                         Dec(220462, 4)),
                    Cambio))
        /\ REq(RSub(results["calc_acucar_vhp_detalhado"].values["sugar_ny_mais_pol_cents_lb"],
                    results["calc_acucar_vhp_detalhado"].values["equivalente_vhp_cents_lb_pvu"]),
               RDiv(RAdd(VhpCustoTerminal, RDiv(VhpFrete, Cambio)), Dec(220462, 4)))

\* the VHP calculator has returned, for an exchange rate other than 1 and
\* other than the base one, an ex-mill value below its FOB value
C15_Witness ==
    /\ VhpReturned
    /\ ~REq(Cambio, One)
    /\ ~REq(Cambio, BaseGlobais["cambio_brl_usd"])
    /\ RLt(results["calc_acucar_vhp_detalhado"].values["equivalente_vhp_cents_lb_pvu"],
           results["calc_acucar_vhp_detalhado"].values["sugar_ny_mais_pol_cents_lb"])
    /\ ~RIsZero(VhpFrete)

(***************************************************************************)
(* The breakdown of the VHP sugar calculator                               *)
(***************************************************************************)
\* the steps of the breakdown the VHP calculator returned
Desenvolvimento == results["calc_acucar_vhp_detalhado"].values["desenvolvimento"].items

\* the values recorded for step passo
Valores(passo) == Desenvolvimento[passo].items["valores"].items

\* the steps: the key of the recorded result, the top-level value it is the
\* result of, the key of the recorded input taken from an earlier step
\* ("" for step 1, which takes none) and that earlier step
Passos ==
    [passo1 |-> <<"resultado_cents_lb", "sugar_ny_mais_pol_cents_lb", "", "">>,
     passo2 |-> <<"resultado_brl_saca", "equivalente_vhp_reais_saca_pvu",
                  "sugar_ny_mais_pol_cents_lb", "passo1">>,
     passo3 |-> <<"resultado_cents_lb_pvu", "equivalente_vhp_cents_lb_pvu",
                  "equivalente_vhp_reais_saca_pvu", "passo2">>,
     passo4 |-> <<"resultado_cents_lb_fob", "equivalente_vhp_cents_lb_fob",
                  "sugar_ny_mais_pol_cents_lb", "passo1">>]

\* C16: when the VHP calculator returns values without error they carry under
\* desenvolvimento exactly the four steps passo1 .. passo4, each a description,
\* a formula and the mapping valores of its inputs and its output; the result
\* recorded for each step is the top-level value of that step, and the input
\* recorded for steps 2, 3 and 4 is the result recorded for the step it is
\* taken from (step 1 for steps 2 and 4, step 2 for step 3).
C16_Desenvolvimento ==
    (Called("calc_acucar_vhp_detalhado")
        /\ results["calc_acucar_vhp_detalhado"].errors = << >>) =>
        /\ "desenvolvimento" \in DOMAIN results["calc_acucar_vhp_detalhado"].values
        /\ DOMAIN Desenvolvimento = DOMAIN Passos
        /\ \A p \in DOMAIN Passos :
              /\ DOMAIN Desenvolvimento[p].items = {"descricao", "formula", "valores"}
              /\ Passos[p][1] \in DOMAIN Valores(p)
              /\ SameValue(Valores(p)[Passos[p][1]],
                           results["calc_acucar_vhp_detalhado"].values[Passos[p][2]])
              /\ Passos[p][3] # "" =>
                    /\ Passos[p][3] \in DOMAIN Valores(p)
                    /\ SameValue(Valores(p)[Passos[p][3]],
                                 Valores(Passos[p][4])[Passos[Passos[p][4]][1]])

\* the VHP calculator has returned a breakdown whose four results are
\* numbers, the one of step 2 not being the one of step 3
C16_Witness ==
    /\ VhpReturned
    /\ ~REq(Cambio, One)
    /\ \A p \in DOMAIN Passos : IsNum(Valores(p)[Passos[p][1]])
    /\ ~REq(Valores("passo2")["resultado_brl_saca"],
            Valores("passo3")["resultado_cents_lb_pvu"])
    /\ ~RIsZero(Valores("passo3")["resultado_cents_lb_pvu"])

(***************************************************************************)
(* The ESALQ Crystal calculator                                            *)
(***************************************************************************)
\* the value the ESALQ calculator returned under key
Esalq(key) == results["calc_acucar_cristal_esalq"].values[key]

\* (perTon / factor) / cambio_brl_usd
PerPound(perTon, factor) == RDiv(RDiv(perTon, factor), Cambio)

\* C17: for a positive exchange rate and numeric parameters the ESALQ
\* calculator returns no error and
\*   Crystal per-bag = price * (1 - tax), tax in its normalized form,
\*   VHP per-bag = Crystal per-bag - conversion cost,
\*   VHP per-pound ex-mill = VHP per-bag * 20 / 22.0462 / rate,
\*   VHP per-pound FOB = (VHP per-bag * 20 + Santos-mill freight
\*                        + terminalCost * rate) / 22.0462 / rate,
\*   Crystal per-pound ex-mill = (Crystal per-bag * 20 - 15) / 22.0462 / rate,
\*   Crystal per-pound FOB = (Crystal per-bag * 20 + Santos-mill freight
\*                            + containerization cost) / 22.04622 / rate,
\* the last being the only one with 22.04622.
C17_Esalq ==
    (Called("calc_acucar_cristal_esalq") /\ CambioPositive
        /\ ~ReadsUnusable("calc_acucar_cristal_esalq")) =>
        /\ results["calc_acucar_cristal_esalq"].errors = << >>
        /\ REq(Esalq("equivalente_cristal_reais_saca_pvu"),
               RMul(DictGet(inputs, "preco_esalq_brl_saca", Zero),
                    RSub(One, Normalized(DictGet(inputs, "imposto", Zero)))))
        /\ REq(Esalq("equivalente_vhp_reais_saca_pvu"),
               RSub(Esalq("equivalente_cristal_reais_saca_pvu"),
                    DictGet(inputs, "custo_vhp_para_cristal", Zero)))
        /\ REq(Esalq("equivalente_vhp_cents_lb_pvu"),
               PerPound(RMul(Esalq("equivalente_vhp_reais_saca_pvu"), Num(20)),
                        Dec(220462, 4)))
        /\ REq(Esalq("equivalente_vhp_cents_lb_fob"),
               PerPound(RAdd(RAdd(RMul(Esalq("equivalente_vhp_reais_saca_pvu"), Num(20)),
                                  DictGet(inputs, "frete_santos_usina_brl_ton", Zero)),
                             RMul(DictGet(globais, "custo_terminal_usd_ton", Zero), Cambio)),
                        Dec(220462, 4)))
        /\ REq(Esalq("equivalente_cristal_cents_lb_pvu"),
               PerPound(RSub(RMul(Esalq("equivalente_cristal_reais_saca_pvu"), Num(20)),
                             Num(15)),
                        Dec(220462, 4)))
        /\ REq(Esalq("equivalente_cristal_cents_lb_fob"),
               PerPound(RAdd(RAdd(RMul(Esalq("equivalente_cristal_reais_saca_pvu"), Num(20)),
                                  DictGet(inputs, "frete_santos_usina_brl_ton", Zero)),
                             DictGet(inputs, "custo_fobizacao_container_brl_ton", Zero)),
                        Dec(2204622, 5)))

\* the ESALQ calculator has returned values for the base price and tax and
\* an exchange rate other than 1
C17_Witness ==
    /\ Called("calc_acucar_cristal_esalq")
    /\ CambioPositive
    /\ ~REq(Cambio, One)
    /\ Given(inputs, "preco_esalq_brl_saca", Dec(11567, 2))
    /\ Given(inputs, "imposto", Dec(985, 2))
    /\ results["calc_acucar_cristal_esalq"].errors = << >>
    /\ REq(Esalq("equivalente_cristal_reais_saca_pvu"),
           RMul(Dec(11567, 2), Dec(9015, 4)))

(***************************************************************************)
(* The two ethanol export calculators                                      *)
(***************************************************************************)
\* the ethanol export calculators: the key of the FOB price of each and the
\* liter constant the claims give it
EthanolExport ==
    [calc_etanol_anidro_exportacao |-> <<"preco_anidro_fob_usd", Dec(32669, 3)>>,
     calc_etanol_hidratado_exportacao |-> <<"preco_hidratado_fob_usd", Dec(31304, 3)>>]

\* price * rate - port/mill freight - ethanol terminal cost - documentation
\* supervision cost - demurrage, for the FOB price under key
EthanolNetPrice(key) ==
    RSub(RSub(RSub(RSub(RMul(DictGet(inputs, key, Zero), Cambio),
                        DictGet(inputs, "frete_etanol_porto_usina", Zero)),
                   DictGet(inputs, "custo_terminal_etanol", Zero)),
              DictGet(inputs, "custo_supervisao_documentos", Zero)),
         DictGet(inputs, "custos_adicionais_demurrage", Zero))

EthanolFobGap ==
    RDiv(PerPound(RAdd(DictGet(globais, "frete_brl_ton", Zero),
                       RMul(DictGet(globais, "custo_terminal_usd_ton", Zero), Cambio)),
                  Dec(220462, 4)),
         Dec(1042, 3))

\* C19: for a positive exchange rate each ethanol export calculator returns
\* the per-pound ex-mill value (perBag * 20 / 22.0462 / rate) / 1.042 and the
\* per-pound FOB value
\* ((perBag * 20 + VHP freight + VHP terminalCost * rate) / 22.0462 / rate)
\* / 1.042, perBag being its per-bag value, so that FOB less ex-mill is
\* (VHP freight + VHP terminalCost * rate) / 22.0462 / rate / 1.042 whatever
\* the ethanol freight and the ethanol terminal cost are.
C19_EthanolPerPound ==
    \A c \in DOMAIN EthanolExport :
        (Called(c) /\ CambioPositive /\ results[c].errors = << >>) =>
            /\ REq(results[c].values["equivalente_vhp_cents_lb_pvu"],
                   RDiv(PerPound(RMul(results[c].values["equivalente_vhp_reais_saca_pvu"],
                                      Num(20)),
                                 Dec(220462, 4)),
                        Dec(1042, 3)))
            /\ REq(results[c].values["equivalente_vhp_cents_lb_fob"],
                   RDiv(PerPound(RAdd(RAdd(RMul(results[c].values["equivalente_vhp_reais_saca_pvu"],
                                                Num(20)),
                                           DictGet(globais, "frete_brl_ton", Zero)),
                                      RMul(DictGet(globais, "custo_terminal_usd_ton", Zero),
                                           Cambio)),
                                 Dec(220462, 4)),
                        Dec(1042, 3)))
            /\ REq(RSub(results[c].values["equivalente_vhp_cents_lb_fob"],
                        results[c].values["equivalente_vhp_cents_lb_pvu"]),
                   EthanolFobGap)

\* the two calculators have returned values for an ethanol freight other
\* than the base one, the VHP freight and terminal cost not being zero
C19_Witness ==
    /\ Called("calc_etanol_hidratado_exportacao")
    /\ CambioPositive
    /\ Given(inputs, "frete_etanol_porto_usina",
             RAdd(BaseInputs["frete_etanol_porto_usina"], One))
    /\ RLt(Zero, EthanolFobGap)
    /\ \A c \in DOMAIN EthanolExport :
          /\ results[c].errors = << >>
          /\ ~RIsZero(results[c].values["equivalente_vhp_cents_lb_pvu"])

(***************************************************************************)
(* Net price of the two ethanol domestic calculators                       *)
(***************************************************************************)
\* gross * (1 - agroContribution) * (1 - icms) - PIS/COFINS, for the gross
\* price under key, the contribution in its normalized form
EthanolDomesticNet(key, icms) ==
    RSub(RMul(RMul(DictGet(inputs, key, Zero),
                   RSub(One, Normalized(DictGet(inputs, "contribuicao_agroindustria", Zero)))),
              RSub(One, icms)),
         DictGet(inputs, "pis_cofins_brl", Zero))

\* C20: for a positive exchange rate and numeric parameters the anhydrous
\* domestic calculator returns
\* preco_liquido_pvu = gross * (1 - agroContribution) - PIS/COFINS and the
\* hydrated one gross * (1 - agroContribution) * (1 - ICMS) - PIS/COFINS,
\* agroContribution and ICMS in their normalized form; with ICMS = 0 and the
\* same gross price, contribution and PIS/COFINS the two net prices are
\* equal.
C20_EthanolDomesticNet ==
    /\ (Called("calc_etanol_anidro_mercado_interno") /\ CambioPositive
          /\ ~ReadsUnusable("calc_etanol_anidro_mercado_interno")) =>
          /\ results["calc_etanol_anidro_mercado_interno"].errors = << >>
          /\ REq(results["calc_etanol_anidro_mercado_interno"].values["preco_liquido_pvu"],
                 EthanolDomesticNet("preco_anidro_com_impostos_brl", Zero))
    /\ (Called("calc_etanol_hidratado_mercado_interno") /\ CambioPositive
          /\ ~ReadsUnusable("calc_etanol_hidratado_mercado_interno")) =>
          /\ results["calc_etanol_hidratado_mercado_interno"].errors = << >>
          /\ REq(results["calc_etanol_hidratado_mercado_interno"].values["preco_liquido_pvu"],
                 EthanolDomesticNet("preco_hidratado_com_impostos_brl",
                                    Normalized(DictGet(inputs, "icms_percentual", Zero))))
          /\ (/\ results["calc_etanol_anidro_mercado_interno"].errors = << >>
              /\ RIsZero(DictGet(inputs, "icms_percentual", Zero))
              /\ SameValue(DictGet(inputs, "preco_anidro_com_impostos_brl", Zero),
                           DictGet(inputs, "preco_hidratado_com_impostos_brl", Zero))) =>
                REq(results["calc_etanol_anidro_mercado_interno"].values["preco_liquido_pvu"],
                    results["calc_etanol_hidratado_mercado_interno"].values["preco_liquido_pvu"])

\* the two calculators have returned the same net price, not zero, for the
\* same gross price and no ICMS
C20_Witness ==
    /\ Called("calc_etanol_hidratado_mercado_interno")
    /\ CambioPositive
    /\ inputs = SameGrossNoIcms
    /\ results["calc_etanol_anidro_mercado_interno"].errors = << >>
    /\ results["calc_etanol_hidratado_mercado_interno"].errors = << >>
    /\ RLt(Zero, results["calc_etanol_hidratado_mercado_interno"].values["preco_liquido_pvu"])
    /\ REq(results["calc_etanol_anidro_mercado_interno"].values["preco_liquido_pvu"],
           results["calc_etanol_hidratado_mercado_interno"].values["preco_liquido_pvu"])

(***************************************************************************)
(* Net price plus CBIO of the two ethanol domestic calculators             *)
(***************************************************************************)
\* c returned values[sum] = values[net] + (cbioNet / f) * 1000 and
\* values[perBag] = values[sum] / litres
PricePlusCbio(c, f, litres) ==
    /\ REq(results[c].values["preco_liquido_pvu_mais_cbio"],
           RAdd(results[c].values["preco_liquido_pvu"],
                RMul(RDiv(CbioNetOfTax, f), Num(1000))))
    /\ REq(results[c].values["equivalente_vhp_reais_saca_pvu"],
           RDiv(results[c].values["preco_liquido_pvu_mais_cbio"], litres))

\* C21: in the records the ethanol domestic calculators return without
\* errors, preco_liquido_pvu_mais_cbio = preco_liquido_pvu +
\* (cbioNet / F) * 1000 with cbioNet = grossCBIO * 0.7575 * 0.6 and F = 712.4
\* for the anhydrous, 749.75 for the hydrated ethanol, and
\* equivalente_vhp_reais_saca_pvu is that sum divided by 33.712 for the
\* anhydrous, by 31.504 for the hydrated ethanol.
C21_PricePlusCbio ==
    /\ (Called("calc_etanol_anidro_mercado_interno")
          /\ results["calc_etanol_anidro_mercado_interno"].errors = << >>) =>
          PricePlusCbio("calc_etanol_anidro_mercado_interno", Dec(7124, 1), Dec(33712, 3))
    /\ (Called("calc_etanol_hidratado_mercado_interno")
          /\ results["calc_etanol_hidratado_mercado_interno"].errors = << >>) =>
          PricePlusCbio("calc_etanol_hidratado_mercado_interno", Dec(74975, 2), Dec(31504, 3))

\* both calculators have returned a sum above their net price, for a gross
\* CBIO that is not that of the base Parameter Set
C21_Witness ==
    /\ Done
    /\ IsNum(ValorCbioBruto)
    /\ ~REq(ValorCbioBruto, BaseInputs["valor_cbio_bruto"])
    /\ \A c \in {"calc_etanol_anidro_mercado_interno",
                 "calc_etanol_hidratado_mercado_interno"} :
          /\ results[c].errors = << >>
          /\ RLt(results[c].values["preco_liquido_pvu"],
                 results[c].values["preco_liquido_pvu_mais_cbio"])

(***************************************************************************)
(* The tax credit of the hydrated domestic calculator                      *)
(***************************************************************************)
\* the six equivalence values of a record
Equivalences ==
    {"equivalente_vhp_reais_saca_pvu", "equivalente_vhp_cents_lb_pvu",
     "equivalente_vhp_cents_lb_fob", "equivalente_cristal_cents_lb_pvu",
     "equivalente_cristal_cents_lb_fob", "equivalente_cristal_reais_saca_pvu"}

\* the body of the hydrated domestic calculator for another tax credit
HidratadoMiTryWithCredit(credito) ==
    [i \in 1..Len(calc_etanol_hidratado_mercado_interno_try) |->
        IF calc_etanol_hidratado_mercado_interno_try[i]
               = hidratado_mi_mais_credito(CREDITO_TRIBUTARIO)
        THEN hidratado_mi_mais_credito(credito)
        ELSE calc_etanol_hidratado_mercado_interno_try[i]]

\* the record the hydrated domestic calculator returns for another tax credit
HidratadoMiWithCredit(credito) ==
    Calculator(calc_pre, HidratadoMiTryWithCredit(credito),
               ExceptMessages["calc_etanol_hidratado_mercado_interno"], inputs, globais)

\* records other and record, both without errors, hold the same six
\* equivalence values and not the same credit intermediate
OnlyCreditDiffers(other, record) ==
    /\ other.errors = << >>
    /\ ~REq(other.values["preco_liquido_pvu_mais_cbio_mais_credito"],
            record.values["preco_liquido_pvu_mais_cbio_mais_credito"])
    /\ \A k \in Equivalences : REq(other.values[k], record.values[k])

\* C22: in a record the hydrated domestic calculator returns without errors,
\* preco_liquido_pvu_mais_cbio_mais_credito = preco_liquido_pvu_mais_cbio +
\* 240, and the six equivalence values are those the calculator returns for
\* a tax credit of 0 or of 1000 where the credit intermediate is another:
\* none of them depends on the credit.
C22_TaxCredit ==
    (Called("calc_etanol_hidratado_mercado_interno")
       /\ results["calc_etanol_hidratado_mercado_interno"].errors = << >>) =>
        /\ REq(results["calc_etanol_hidratado_mercado_interno"].values["preco_liquido_pvu_mais_cbio_mais_credito"],
               RAdd(results["calc_etanol_hidratado_mercado_interno"].values["preco_liquido_pvu_mais_cbio"],
                    Num(240)))
        /\ \A credito \in {0, 1000} :
              OnlyCreditDiffers(HidratadoMiWithCredit(credito),
                                results["calc_etanol_hidratado_mercado_interno"])

\* the hydrated domestic calculator has returned the six equivalence values
\* and a credit intermediate, for a price that is not that of the base
\* Parameter Set
C22_Witness ==
    /\ Called("calc_etanol_hidratado_mercado_interno")
    /\ results["calc_etanol_hidratado_mercado_interno"].errors = << >>
    /\ Equivalences \subseteq DOMAIN results["calc_etanol_hidratado_mercado_interno"].values
    /\ ~SameValue(DictGet(inputs, "preco_hidratado_com_impostos_brl", Zero),
                  BaseInputs["preco_hidratado_com_impostos_brl"])
    /\ RLt(results["calc_etanol_hidratado_mercado_interno"].values["preco_liquido_pvu_mais_cbio"],
           results["calc_etanol_hidratado_mercado_interno"].values["preco_liquido_pvu_mais_cbio_mais_credito"])

(***************************************************************************)
(* A record holds all the values of its calculator or none                 *)
(***************************************************************************)
\* the six equivalence values and the intermediate values named more
Six(more) == Equivalences \cup more

\* the keys each calculator stores in values (lines 282-286, 367-372,
\* 454-459, 541-546, 629-634, 710-713, 790-793, 913-924, 1050-1061)
ValueKeys ==
    [calc_acucar_vhp_detalhado |->
        {"sugar_ny_mais_pol_cents_lb", "equivalente_vhp_reais_saca_pvu",
         "equivalente_vhp_cents_lb_pvu", "equivalente_vhp_cents_lb_fob",
         "desenvolvimento"},
     calc_acucar_cristal_esalq |-> Six({}),
     calc_paridade_comercializacao_mi_ny |-> Six({}),
     calc_acucar_cristal_exportacao |-> Six({}),
     calc_acucar_cristal_exportacao_malha30 |-> Six({}),
     calc_etanol_anidro_exportacao |->
        {"preco_liquido_pvu", "equivalente_vhp_reais_saca_pvu",
         "equivalente_vhp_cents_lb_pvu", "equivalente_vhp_cents_lb_fob"},
     calc_etanol_hidratado_exportacao |->
        {"preco_liquido_pvu", "equivalente_vhp_reais_saca_pvu",
         "equivalente_vhp_cents_lb_pvu", "equivalente_vhp_cents_lb_fob"},
     calc_etanol_anidro_mercado_interno |->
        Six({"preco_liquido_pvu", "cbio_liquido_impostos",
             "preco_liquido_pvu_mais_cbio", "equivalente_hidratado"}),
     calc_etanol_hidratado_mercado_interno |->
        Six({"preco_liquido_pvu", "preco_liquido_pvu_mais_cbio", "equivalente_anidro",
             "preco_liquido_pvu_mais_cbio_mais_credito"})]

\* C24: the values of the record a calculator returned are either none or
\* the complete set of keys of that calculator, they are none exactly when
\* errors holds a message, and errors never holds more than one message.
C24_AllOrNothing ==
    \A c \in CalcNames :
        Called(c) =>
            /\ DOMAIN results[c].values \in {{}, ValueKeys[c]}
            /\ (DOMAIN results[c].values = {}) <=> (results[c].errors # << >>)
            /\ Len(results[c].errors) <= 1

\* the pass is over with a record that holds every value and a record that
\* holds a message and no value
C24_Witness ==
    /\ Done
    /\ \E c \in CalcNames :
          DOMAIN results[c].values = ValueKeys[c] /\ results[c].errors = << >>
    /\ \E c \in CalcNames :
          DOMAIN results[c].values = {} /\ Len(results[c].errors) = 1

(***************************************************************************)
(* VHP per pound: FOB and ex-mill                                          *)
(***************************************************************************)
\* the freight and the terminal cost each calculator reads (lines 172-173,
\* 331, 336, 419-420, 506-507, 594-595, 683-684, 763-764, 848-849, 981-982)
LogisticsRead ==
    [calc_acucar_vhp_detalhado |->
        [frete |-> DictGet(inputs, "frete_brl_ton", Zero),
         terminal |-> DictGet(inputs, "custo_terminal_usd_ton", Zero)],
     calc_acucar_cristal_esalq |->
        [frete |-> DictGet(inputs, "frete_santos_usina_brl_ton", Zero),
         terminal |-> DictGet(globais, "custo_terminal_usd_ton", Zero)],
     calc_paridade_comercializacao_mi_ny |->
        [frete |-> DictGet(globais, "frete_santos_usina_brl_ton", Zero),
         terminal |-> DictGet(globais, "custo_terminal_usd_ton", Zero)],
     calc_acucar_cristal_exportacao |->
        [frete |-> DictGet(globais, "frete_brl_ton", Zero),
         terminal |-> DictGet(globais, "custo_terminal_usd_ton", Zero)],
     calc_acucar_cristal_exportacao_malha30 |->
        [frete |-> DictGet(globais, "frete_brl_ton", Zero),
         terminal |-> DictGet(globais, "custo_terminal_usd_ton", Zero)],
     calc_etanol_anidro_exportacao |->
        [frete |-> DictGet(globais, "frete_brl_ton", Zero),
         terminal |-> DictGet(globais, "custo_terminal_usd_ton", Zero)],
     calc_etanol_hidratado_exportacao |->
        [frete |-> DictGet(globais, "frete_brl_ton", Zero),
         terminal |-> DictGet(globais, "custo_terminal_usd_ton", Zero)],
     calc_etanol_anidro_mercado_interno |->
        [frete |-> DictGet(globais, "frete_brl_ton", Zero),
         terminal |-> DictGet(globais, "custo_terminal_usd_ton", Zero)],
     calc_etanol_hidratado_mercado_interno |->
        [frete |-> DictGet(globais, "frete_brl_ton", Zero),
         terminal |-> DictGet(globais, "custo_terminal_usd_ton", Zero)]]

\* calculator c has returned values for a positive exchange rate and a
\* freight and a terminal cost that are not negative
PricedWithLogistics(c) ==
    /\ Called(c)
    /\ CambioPositive
    /\ results[c].errors = << >>
    /\ IsNum(LogisticsRead[c].frete) /\ RLe(Zero, LogisticsRead[c].frete)
    /\ IsNum(LogisticsRead[c].terminal) /\ RLe(Zero, LogisticsRead[c].terminal)

\* calculator c read no freight and no terminal cost
NoLogisticsRead(c) ==
    RIsZero(LogisticsRead[c].frete) /\ RIsZero(LogisticsRead[c].terminal)

VhpFob(c) == results[c].values["equivalente_vhp_cents_lb_fob"]

VhpPvu(c) == results[c].values["equivalente_vhp_cents_lb_pvu"]

\* the two ethanol domestic calculators
EthanolDomestic ==
    {"calc_etanol_anidro_mercado_interno", "calc_etanol_hidratado_mercado_interno"}

\* C25 (as the code has it): for an exchange rate > 0 and a freight and a
\* terminal cost that are not negative, in the seven calculators other than
\* the two ethanol domestic ones the VHP per-pound FOB value is never below
\* the VHP per-pound ex-mill value, and the two are equal when freight and
\* terminal cost are both zero; in the two ethanol domestic calculators the
\* FOB value is (ex-mill + (freight + terminalCost * rate) / 22.0462 / rate)
\* / 1.042, so that it is 1.042 times the FOB value that is never below the
\* ex-mill value and that equals it when freight and terminal cost are both
\* zero.
C25_FobAndExMill ==
    \A c \in CalcNames :
        PricedWithLogistics(c) =>
            IF c \in EthanolDomestic
            THEN /\ REq(RMul(VhpFob(c), Dec(1042, 3)),
                        RAdd(VhpPvu(c),
                             PerPound(RAdd(LogisticsRead[c].frete,
                                           RMul(LogisticsRead[c].terminal, Cambio)),
                                      Dec(220462, 4))))
                 /\ RLe(VhpPvu(c), RMul(VhpFob(c), Dec(1042, 3)))
                 /\ NoLogisticsRead(c) => REq(RMul(VhpFob(c), Dec(1042, 3)), VhpPvu(c))
            ELSE /\ RLe(VhpPvu(c), VhpFob(c))
                 /\ NoLogisticsRead(c) => REq(VhpFob(c), VhpPvu(c))

\* C25 as stated: in every one of the nine calculators, for an exchange rate
\* > 0 and a freight and a terminal cost that are not negative, the VHP
\* per-pound FOB value is never below the VHP per-pound ex-mill value, and
\* the two are equal when freight and terminal cost are both zero.
C25_FobNeverBelowExMill ==
    \A c \in CalcNames :
        PricedWithLogistics(c) =>
            /\ RLe(VhpPvu(c), VhpFob(c))
            /\ NoLogisticsRead(c) => REq(VhpFob(c), VhpPvu(c))

\* the pass is over without errors for no freight and no terminal cost: the
\* FOB value of the VHP sugar is its ex-mill value, not zero, and the FOB
\* value of the anhydrous domestic ethanol is below its ex-mill value
C25_Witness ==
    /\ Done
    /\ \A c \in CalcNames : PricedWithLogistics(c) /\ NoLogisticsRead(c)
    /\ RLt(Zero, VhpPvu("calc_acucar_vhp_detalhado"))
    /\ REq(VhpFob("calc_acucar_vhp_detalhado"), VhpPvu("calc_acucar_vhp_detalhado"))
    /\ RLt(VhpFob("calc_etanol_anidro_mercado_interno"),
           VhpPvu("calc_etanol_anidro_mercado_interno"))

(***************************************************************************)
(* Crystal per pound FOB of the two export calculators                     *)
(***************************************************************************)
\* the premium each export calculator reads (lines 503, 591)
PremioRead ==
    [calc_acucar_cristal_exportacao |-> DictGet(inputs, "premio_fisico_exportacao", Zero),
     calc_acucar_cristal_exportacao_malha30 |->
        DictGet(inputs, "premio_fisico_exportacao_malha30", Zero)]

\* (exchangePrice * 22.04622 + premium) / 22.0462
PremiumPerPound(premium) ==
    RDiv(RAdd(RMul(DictGet(inputs, "acucar_ny_cents_lb", Zero), Dec(2204622, 5)), premium),
         Dec(220462, 4))

\* C26: in a record an export Crystal calculator returns without errors,
\* equivalente_cristal_cents_lb_fob is (exchangePrice * 22.04622 + premium)
\* / 22.0462 whatever the exchange rate, the freight, the fobization cost
\* and the conversion cost are, and it equals
\* (Crystal per-bag * 20 + fobization + freight) / 22.0462 / rate.
C26_CrystalFob ==
    \A e \in ExportCrystal :
        (Called(e) /\ results[e].errors = << >>) =>
            /\ REq(results[e].values["equivalente_cristal_cents_lb_fob"],
                   PremiumPerPound(PremioRead[e]))
            /\ REq(results[e].values["equivalente_cristal_cents_lb_fob"],
                   PerPound(RAdd(RAdd(RMul(results[e].values["equivalente_cristal_reais_saca_pvu"],
                                           Num(20)),
                                      DictGet(globais, "custo_fobizacao_container_brl_ton", Zero)),
                                 DictGet(globais, "frete_brl_ton", Zero)),
                            Dec(220462, 4)))

\* the two calculators have returned the value of the base exchange price
\* and premiums, for an exchange rate that is not the base one and a freight
\* that is not the base one
C26_Witness ==
    /\ Called("calc_acucar_cristal_exportacao_malha30")
    /\ \E k \in {"cambio_brl_usd", "frete_brl_ton", "custo_fobizacao_container_brl_ton",
                 "custo_vhp_para_cristal"} :
          /\ k \in DOMAIN globais
          /\ IsNum(globais[k])
          /\ ~REq(globais[k], BaseGlobais[k])
    /\ \A e \in ExportCrystal :
          /\ results[e].errors = << >>
          /\ REq(results[e].values["equivalente_cristal_cents_lb_fob"],
                 RDiv(RAdd(RMul(BaseInputs["acucar_ny_cents_lb"], Dec(2204622, 5)),
                           BaseInputs[IF e = "calc_acucar_cristal_exportacao"
                                      THEN "premio_fisico_exportacao"
                                      ELSE "premio_fisico_exportacao_malha30"]),
                      Dec(220462, 4)))

(***************************************************************************)
(* The freight, the terminal cost and the exchange rate of a run           *)
(***************************************************************************)
\* the calculators that read the freight and the terminal cost in globais
\* (lines 506-507, 594-595, 683-684, 763-764, 848-849, 981-982)
ReadLogisticsInGlobais ==
    {"calc_acucar_cristal_exportacao", "calc_acucar_cristal_exportacao_malha30",
     "calc_etanol_anidro_exportacao", "calc_etanol_hidratado_exportacao",
     "calc_etanol_anidro_mercado_interno", "calc_etanol_hidratado_mercado_interno"}

\* the freight and the terminal cost in the mapping m a calculator was given
LogisticsGiven(m) ==
    [frete |-> DictGet(m, "frete_brl_ton", Zero),
     terminal |-> DictGet(m, "custo_terminal_usd_ton", Zero)]

\* the calculators called in the run so far
CalledInPass == DOMAIN arguments

\* C23: within a run of the dashboard, the freight and the terminal cost
\* that the two export Crystal calculators and the four ethanol calculators
\* are given in globais are those the VHP calculator was given in inputs,
\* and every calculator called is given the exchange rate the VHP
\* calculator was given
C23_SharedContext ==
    \A c \in CalledInPass :
       /\ c \in ReadLogisticsInGlobais =>
             LogisticsGiven(arguments[c].globais)
                 = LogisticsGiven(arguments["calc_acucar_vhp_detalhado"].inputs)
       /\ "cambio_brl_usd" \in DOMAIN arguments[c].globais
       /\ arguments[c].globais["cambio_brl_usd"]
             = arguments["calc_acucar_vhp_detalhado"].globais["cambio_brl_usd"]

\* a run in which the nine calculators were called with a freight of the VHP
\* sugar that is not the freight from Santos to the mill, after the user
\* changed the exchange rate
C23_Witness ==
    /\ CalledInPass = CalcNames
    /\ arguments["calc_acucar_vhp_detalhado"].inputs["frete_brl_ton"] = Num(150)
    /\ arguments["calc_etanol_hidratado_mercado_interno"].globais["frete_santos_usina_brl_ton"] # Num(150)
    /\ arguments["calc_etanol_hidratado_mercado_interno"].globais["cambio_brl_usd"] = Num(5)
    /\ "last_saved_values" \in DOMAIN session_state
    /\ session_state["last_saved_values"]["cambio_brl_usd"] = Num(5)

(***************************************************************************)
(* The errors and the table of a run                                       *)
(***************************************************************************)
\* the run has shown its errors and its table
Exibido == stage = "idle" /\ pc = Len(Calculators)

\* the products of the rows of the table
InTable == {display.dashboard_data[i].Produto : i \in 1..Len(display.dashboard_data)}

\* the number of errors in the records of the calculators before position i
ErrorsBefore(i) ==
    Len(ErrorsFrom([c \in CalcNames |-> IF Pos(c) < i THEN results[c] ELSE NoResult], 1))

\* C27: when a run has shown its results, the errors shown are the errors
\* of the nine records, each record's errors in their order at the place of
\* the record in the pass and nothing else, and the table has one row for
\* each product whose record has values and no row for a product whose
\* record has none
C27_ErrorsAndRows ==
    Exibido =>
       /\ Len(display.all_errors) = ErrorsBefore(Len(Calculators) + 1)
       /\ \A c \in CalcNames :
             SubSeq(display.all_errors, ErrorsBefore(Pos(c)) + 1, ErrorsBefore(Pos(c) + 1))
                = results[c].errors
       /\ \A c \in CalcNames :
             (Produto[c] \in InTable) <=> (results[c].values # EmptyDict)
       /\ Len(display.dashboard_data) = Cardinality(InTable)

\* a run shown in which the VHP calculator and the export Crystal
\* calculator failed and have no row while the other seven products have
\* their rows
C27_Witness ==
    /\ Exibido
    /\ results["calc_acucar_vhp_detalhado"].errors # << >>
    /\ results["calc_acucar_vhp_detalhado"].values = EmptyDict
    /\ results["calc_etanol_anidro_mercado_interno"].errors = << >>
    /\ Produto["calc_etanol_anidro_mercado_interno"] \in InTable
    /\ Produto["calc_acucar_vhp_detalhado"] \notin InTable
    /\ Len(display.all_errors) >= 2
    /\ Len(display.dashboard_data) >= 5

(***************************************************************************)
(* The ranking of a run                                                    *)
(***************************************************************************)
\* the rows of the selected products of the run shown: those of the
\* products chosen in the filter, and every row when none is chosen
Selecionados == dashboard_data_filtrado(display.dashboard_data, display.produtos_filtrados)

Ranking == display.vhp_saca_list

\* the ranking has each row of the selected products once and nothing else
RankingIsPermutation ==
    /\ Len(Ranking) = Len(Selecionados)
    /\ \A i \in 1..Len(Selecionados) : \E j \in 1..Len(Ranking) : Ranking[j] = Selecionados[i]
    /\ \A i, j \in 1..Len(Ranking) : Ranking[i].Produto = Ranking[j].Produto => i = j

RankingIsNonIncreasing ==
    \A i \in 1..(Len(Ranking) - 1) :
       RLe(Ranking[i + 1].vhp_reais_saca_pvu, Ranking[i].vhp_reais_saca_pvu)

TopIsFirstThree ==
    /\ Len(display.top_vhp) = (IF Len(Ranking) < 3 THEN Len(Ranking) ELSE 3)
    /\ \A i \in 1..Len(display.top_vhp) : display.top_vhp[i] = Ranking[i]

\* a product is announced as the best parity, one of the selected products,
\* and none of them has a greater VHP value per bag
BestHasMaximum ==
    /\ Len(display.melhor) = 1
    /\ \E i \in 1..Len(Selecionados) : Selecionados[i] = display.melhor[1]
    /\ \A i \in 1..Len(Selecionados) :
          RLe(Selecionados[i].vhp_reais_saca_pvu, display.melhor[1].vhp_reais_saca_pvu)

\* the greatest VHP value per bag of the ranking is zero
MaximumIsZero == RIsZero(Ranking[1].vhp_reais_saca_pvu)

\* C28 as amended: in a run shown, the ranking is a permutation of the rows
\* of the selected products in non-increasing order of the VHP value per
\* bag, the top-3 cards are its first three entries, and when a product is
\* ranked and the greatest value is not zero the product announced as the
\* best parity has the greatest value among the selected products; when
\* the greatest value is zero no product is announced
C28_Ranking ==
    Exibido =>
       /\ RankingIsPermutation
       /\ RankingIsNonIncreasing
       /\ TopIsFirstThree
       /\ Ranking # << >> =>
             IF MaximumIsZero THEN display.melhor = << >> ELSE BestHasMaximum

\* C28 as stated: a product with the greatest value is announced whenever a
\* product is ranked
C28_BestWheneverRanked ==
    Exibido =>
       /\ RankingIsPermutation
       /\ RankingIsNonIncreasing
       /\ TopIsFirstThree
       /\ Ranking # << >> => BestHasMaximum

\* a run shown with the nine products in the table, more than three of them
\* selected but not all, two neighbours of the ranking with different values,
\* and the product announced not the first row of the table
C28_Witness ==
    /\ Exibido
    /\ Len(display.dashboard_data) = 9
    /\ Len(Ranking) > 3
    /\ Len(Ranking) < 9
    /\ \E i \in 1..(Len(Ranking) - 1) :
          RLt(Ranking[i + 1].vhp_reais_saca_pvu, Ranking[i].vhp_reais_saca_pvu)
    /\ Len(display.melhor) = 1
    /\ display.melhor[1] # display.dashboard_data[1]

(***************************************************************************)
(* The configuration loaded                                                *)
(***************************************************************************)
\* the script has called load_sidebar_config and the file is as it was read
Loaded == stage = "loaded"

\* the file exists and holds a JSON object
HoldsObject == config_file.exists /\ config_file.json.t = "dict"

\* the file is missing, or cannot be read or parsed
MissingOrUnreadable == ~config_file.exists \/ IsExc(config_file.json)

SidebarStep == stage = "loaded" /\ stage' = "calculos"

\* the run is the first of its session that reaches line 1360
FirstPass == current_values = EmptyDict

\* the values of the run differ from the last recorded as saved
DiffersFromLastSaved == session_state["last_saved_values"] # current_values'

\* save_sidebar_config is called in the first pass and in every pass whose
\* values differ from the last recorded as saved, and in no other pass
SavedWhenChanged ==
    [][SidebarStep => (saved' <=> (FirstPass \/ DiffersFromLastSaved))]_vars

\* the file holds the values of the run
StoreHoldsValues == config_file = Dumped(current_values)

\* the pass has gone past line 1362
PastSave == stage = "calculos" \/ Exibido

\* C30: the values are written in the first pass and in every pass whose
\* values differ from the last recorded as saved and in no other, and after
\* every pass the file holds the values of that pass
C30_SaveOnChange == SavedWhenChanged /\ [](PastSave => StoreHoldsValues)

====
